---- MODULE Spec2Model ----
(***************************************************************************)
(* Sigma proofs of zk-sdk: ciphertext-commitment equality,                *)
(* ciphertext-ciphertext equality and zero-ciphertext proofs.             *)
(*                                                                         *)
(* The prime-order Ristretto group is modelled as the cyclic group of     *)
(* prime order L written additively: a point is its multiple of the base  *)
(* generator G (a number in 0..L-1), the identity is 0.  Scalars are the  *)
(* field Z_L.  L stands for the group order 2^252 + ...; every message    *)
(* (a u64) is below L, as in the program.                                 *)
(*                                                                         *)
(* The Merlin transcript is its ordered history of operations; a          *)
(* challenge is the answer of a random oracle to the history, chosen when *)
(* a history is first asked and repeated whenever it is asked again.      *)
(***************************************************************************)
EXTENDS Integers, Sequences, FiniteSets, TLC

----------------------------------------------------------------------------
(* Sizes *)

L == 7
UNIT_LEN == 32
BYTE == 256

MaxAmount == 1
MaxSecret == 2
MaxOpening == 1
MaxMask == 1
MaxChallenge == 2

Min(a, b) == IF a < b THEN a ELSE b

Scalars == 0..(L - 1)
Points == 0..(L - 1)
Amounts == 0..Min(MaxAmount, L - 1)
Secrets == 1..Min(MaxSecret, L - 1)
Openings == 0..Min(MaxOpening, L - 1)
Masks == 0..Min(MaxMask, L - 1)
Challenges == 0..Min(MaxChallenge, L - 1)

----------------------------------------------------------------------------
(* Scalar field and group *)

ScalarAdd(a, b) == (a + b) % L
ScalarMul(a, b) == (a * b) % L
ScalarNeg(a) == (L - (a % L)) % L
ScalarInvert(a) == CHOOSE t \in 1..(L - 1) : (a * t) % L = 1
ScalarFrom(amount) == amount % L
ScalarONE == 1
\* the value zeroize() leaves in a scalar
Zeroize(scalar) == 0

Identity == 0
G == 1
H == 3

PointMul(k, p) == (k * p) % L
PointAdd(p, q) == (p + q) % L
IsIdentity(p) == p = Identity

RECURSIVE MultiscalarMul(_, _)
MultiscalarMul(scalars, points) ==
    IF scalars = <<>> THEN Identity
    ELSE PointAdd(PointMul(Head(scalars), Head(points)),
                  MultiscalarMul(Tail(scalars), Tail(points)))

----------------------------------------------------------------------------
(* Byte encodings *)

\* Option: None is the empty sequence, Some(v) the one-element sequence
None == <<>>
Some(v) == <<v>>
IsSome(opt) == Len(opt) = 1
Unwrap(opt) == opt[1]

ZeroTail(bytes, from) == \A i \in from..Len(bytes) : bytes[i] = 0

\* little-endian, UNIT_LEN bytes
ScalarAsBytes(s) ==
    [i \in 1..UNIT_LEN |-> IF i = 1 THEN s % BYTE
                           ELSE IF i = 2 THEN (s \div BYTE) % BYTE
                           ELSE 0]

\* the scalar when the bytes encode a value below L, None otherwise
FromCanonicalBytes(bytes) ==
    IF ZeroTail(bytes, 3) /\ bytes[1] + BYTE * bytes[2] < L
    THEN Some(bytes[1] + BYTE * bytes[2])
    ELSE None

\* canonical encodings have the low bit clear; the identity is all zero
Compress(p) ==
    [i \in 1..UNIT_LEN |-> IF i = 1 THEN (2 * p) % BYTE
                           ELSE IF i = 2 THEN ((2 * p) \div BYTE) % BYTE
                           ELSE 0]

Decompress(bytes) ==
    IF /\ ZeroTail(bytes, 3)
       /\ bytes[1] % 2 = 0
       /\ (bytes[1] + BYTE * bytes[2]) \div 2 < L
    THEN Some((bytes[1] + BYTE * bytes[2]) \div 2)
    ELSE None

----------------------------------------------------------------------------
(* Transcript *)

Event(op, label, data) == [op |-> op, label |-> label, data |-> data]

TranscriptNew(label) == <<Event("new", label, <<>>)>>
AppendMessage(t, label, bytes) == Append(t, Event("append", label, bytes))
DomainSeparator(t, name) == Append(t, Event("dom-sep", name, <<>>))
AppendPoint(t, label, point) == AppendMessage(t, label, point)
AppendScalar(t, label, s) == AppendMessage(t, label, ScalarAsBytes(s))
\* the history a challenge is derived from, which is also the next state
ChallengeScalar(t, label) == Append(t, Event("challenge", label, <<>>))
\* validate_and_append_point: the point must decompress before it is
\* absorbed; on failure nothing is absorbed
ValidateAndAppendPoint(t, label, point) ==
    IF IsSome(Decompress(point))
    THEN [ok |-> TRUE, transcript |-> AppendPoint(t, label, point)]
    ELSE [ok |-> FALSE, transcript |-> t]

\* random oracle: qs is a sequence of <<history, answer>>
Answers(o, qs) ==
    \A i \in 1..Len(qs) : qs[i][1] \in DOMAIN o => o[qs[i][1]] = qs[i][2]
RECURSIVE Record(_, _)
Record(o, qs) ==
    IF qs = <<>> THEN o
    ELSE Record(IF Head(qs)[1] \in DOMAIN o THEN o
                ELSE (Head(qs)[1] :> Head(qs)[2]) @@ o, Tail(qs))

----------------------------------------------------------------------------
(* Twisted ElGamal and Pedersen (the accessors the proofs consume) *)

Keypair(s) == [secret |-> s, pubkey |-> PointMul(ScalarInvert(s), H)]
\* ElGamalKeypair::new_for_tests: any public key with any secret
ElGamalKeypair_new_for_tests(public, secret) ==
    [secret |-> secret, pubkey |-> public]
PedersenWith(amount, r) ==
    MultiscalarMul(<<ScalarFrom(amount), r>>, <<G, H>>)
DecryptHandle(P, r) == PointMul(r, P)
EncryptWith(P, amount, r) ==
    [commitment |-> PedersenWith(amount, r), handle |-> DecryptHandle(P, r)]

Ok == "Ok"
Deserialization == "Deserialization"
AlgebraicRelation == "AlgebraicRelation"
\* the kinds of SigmaProofVerificationError that no code path constructs
MultiscalarMulError == "MultiscalarMul"
PubkeyIsIdentity == "PubkeyIsIdentity"

Outcome(result, t, qs) == [result |-> result, transcript |-> t, queries |-> qs]

----------------------------------------------------------------------------
(* ciphertext_commitment_equality.rs *)

\* mutant: Y_2 leaves out y_r * H
CiphertextCommitmentEqualityProof_new_unmasked_Y_2(keypair, ciphertext, opening, amount, transcript, y_s, y_x, y_r, c, w) ==
    LET t0 == DomainSeparator(transcript, "ciphertext-commitment-equality-proof")
        P == keypair.pubkey
        D == ciphertext.handle
        s == keypair.secret
        x == ScalarFrom(amount)
        r == opening
        Y_0 == Compress(PointMul(y_s, P))
        Y_1 == Compress(MultiscalarMul(<<y_x, y_s>>, <<G, D>>))
        Y_2 == Compress(PointMul(y_x, G))
        t1 == AppendPoint(t0, "Y_0", Y_0)
        t2 == AppendPoint(t1, "Y_1", Y_1)
        t3 == AppendPoint(t2, "Y_2", Y_2)
        tc == ChallengeScalar(t3, "c")
        tw == ChallengeScalar(tc, "w")
        z_s == ScalarAdd(ScalarMul(c, s), y_s)
        z_x == ScalarAdd(ScalarMul(c, x), y_x)
        z_r == ScalarAdd(ScalarMul(c, r), y_r)
    IN  [proof |-> [Y_0 |-> Y_0, Y_1 |-> Y_1, Y_2 |-> Y_2,
                    z_s |-> z_s, z_x |-> z_x, z_r |-> z_r],
         transcript |-> tw,
         queries |-> << <<tc, c>>, <<tw, w>> >>,
         locals |-> [x |-> Zeroize(x), y_s |-> Zeroize(y_s),
                     y_x |-> Zeroize(y_x), y_r |-> Zeroize(y_r)]]

\* new(): y_s, y_x, y_r are the OsRng draws, c and w the oracle's answers
CiphertextCommitmentEqualityProof_new(keypair, ciphertext, opening, amount, transcript, y_s, y_x, y_r, c, w) ==
    LET t0 == DomainSeparator(transcript, "ciphertext-commitment-equality-proof")
        P == keypair.pubkey
        D == ciphertext.handle
        s == keypair.secret
        x == ScalarFrom(amount)
        r == opening
        Y_0 == Compress(PointMul(y_s, P))
        Y_1 == Compress(MultiscalarMul(<<y_x, y_s>>, <<G, D>>))
        Y_2 == Compress(MultiscalarMul(<<y_x, y_r>>, <<G, H>>))
        t1 == AppendPoint(t0, "Y_0", Y_0)
        t2 == AppendPoint(t1, "Y_1", Y_1)
        t3 == AppendPoint(t2, "Y_2", Y_2)
        tc == ChallengeScalar(t3, "c")
        tw == ChallengeScalar(tc, "w")
        z_s == ScalarAdd(ScalarMul(c, s), y_s)
        z_x == ScalarAdd(ScalarMul(c, x), y_x)
        z_r == ScalarAdd(ScalarMul(c, r), y_r)
    IN  [proof |-> [Y_0 |-> Y_0, Y_1 |-> Y_1, Y_2 |-> Y_2,
                    z_s |-> z_s, z_x |-> z_x, z_r |-> z_r],
         transcript |-> tw,
         queries |-> << <<tc, c>>, <<tw, w>> >>,
         locals |-> [x |-> Zeroize(x), y_s |-> Zeroize(y_s),
                     y_x |-> Zeroize(y_x), y_r |-> Zeroize(y_r)]]

\* mutant: the third equation is checked against the ciphertext's commitment
CiphertextCommitmentEqualityProof_check_same_C(proof, Y_0, Y_1, Y_2, P, C_ciphertext, D, C_commitment, c, w) ==
    LET ww == ScalarMul(w, w)
        w_negated == ScalarNeg(w)
        ww_negated == ScalarNeg(ww)
    IN  MultiscalarMul(
            << proof.z_s,
               ScalarNeg(c),
               ScalarNeg(ScalarONE),
               ScalarMul(w, proof.z_x),
               ScalarMul(w, proof.z_s),
               ScalarMul(w_negated, c),
               w_negated,
               ScalarMul(ww, proof.z_x),
               ScalarMul(ww, proof.z_r),
               ScalarMul(ww_negated, c),
               ww_negated >>,
            << P, H, Y_0, G, D, C_ciphertext, Y_1, G, H, C_ciphertext, Y_2 >>)

\* mutant: the points of w * z_x and w * z_s are exchanged
CiphertextCommitmentEqualityProof_check_swapped(proof, Y_0, Y_1, Y_2, P, C_ciphertext, D, C_commitment, c, w) ==
    LET ww == ScalarMul(w, w)
        w_negated == ScalarNeg(w)
        ww_negated == ScalarNeg(ww)
    IN  MultiscalarMul(
            << proof.z_s,
               ScalarNeg(c),
               ScalarNeg(ScalarONE),
               ScalarMul(w, proof.z_x),
               ScalarMul(w, proof.z_s),
               ScalarMul(w_negated, c),
               w_negated,
               ScalarMul(ww, proof.z_x),
               ScalarMul(ww, proof.z_r),
               ScalarMul(ww_negated, c),
               ww_negated >>,
            << P, H, Y_0, D, G, C_ciphertext, Y_1, G, H, C_commitment, Y_2 >>)

\* mutant: -w * c instead of -ww * c on the commitment
CiphertextCommitmentEqualityProof_check_w_for_ww(proof, Y_0, Y_1, Y_2, P, C_ciphertext, D, C_commitment, c, w) ==
    LET ww == ScalarMul(w, w)
        w_negated == ScalarNeg(w)
        ww_negated == ScalarNeg(ww)
    IN  MultiscalarMul(
            << proof.z_s,
               ScalarNeg(c),
               ScalarNeg(ScalarONE),
               ScalarMul(w, proof.z_x),
               ScalarMul(w, proof.z_s),
               ScalarMul(w_negated, c),
               w_negated,
               ScalarMul(ww, proof.z_x),
               ScalarMul(ww, proof.z_r),
               ScalarMul(w_negated, c),
               ww_negated >>,
            << P, H, Y_0, G, D, C_ciphertext, Y_1, G, H, C_commitment, Y_2 >>)

\* mutant: -c multiplies P instead of H
CiphertextCommitmentEqualityProof_check_P_for_H(proof, Y_0, Y_1, Y_2, P, C_ciphertext, D, C_commitment, c, w) ==
    LET ww == ScalarMul(w, w)
        w_negated == ScalarNeg(w)
        ww_negated == ScalarNeg(ww)
    IN  MultiscalarMul(
            << proof.z_s,
               ScalarNeg(c),
               ScalarNeg(ScalarONE),
               ScalarMul(w, proof.z_x),
               ScalarMul(w, proof.z_s),
               ScalarMul(w_negated, c),
               w_negated,
               ScalarMul(ww, proof.z_x),
               ScalarMul(ww, proof.z_r),
               ScalarMul(ww_negated, c),
               ww_negated >>,
            << P, P, Y_0, G, D, C_ciphertext, Y_1, G, H, C_commitment, Y_2 >>)

\* the scalars of the multiscalar multiplication of verify()
CiphertextCommitmentEqualityProof_check_scalars(proof, c, w) ==
    LET ww == ScalarMul(w, w)
        w_negated == ScalarNeg(w)
        ww_negated == ScalarNeg(ww)
    IN  << proof.z_s,
           ScalarNeg(c),
           ScalarNeg(ScalarONE),
           ScalarMul(w, proof.z_x),
           ScalarMul(w, proof.z_s),
           ScalarMul(w_negated, c),
           w_negated,
           ScalarMul(ww, proof.z_x),
           ScalarMul(ww, proof.z_r),
           ScalarMul(ww_negated, c),
           ww_negated >>

\* mutant: the points of -c and -1 in the first equation are exchanged
CiphertextCommitmentEqualityProof_check_points_Y_0_for_H(Y_0, Y_1, Y_2, P, C_ciphertext, D, C_commitment) ==
    << P, Y_0, H, G, D, C_ciphertext, Y_1, G, H, C_commitment, Y_2 >>

\* the points of the multiscalar multiplication of verify()
CiphertextCommitmentEqualityProof_check_points(Y_0, Y_1, Y_2, P, C_ciphertext, D, C_commitment) ==
    << P, H, Y_0, G, D, C_ciphertext, Y_1, G, H, C_commitment, Y_2 >>

\* the 11-term multiscalar multiplication of verify()
CiphertextCommitmentEqualityProof_check(proof, Y_0, Y_1, Y_2, P, C_ciphertext, D, C_commitment, c, w) ==
    MultiscalarMul(
        CiphertextCommitmentEqualityProof_check_scalars(proof, c, w),
        CiphertextCommitmentEqualityProof_check_points(
            Y_0, Y_1, Y_2, P, C_ciphertext, D, C_commitment))

\* mutant: w is derived right after c, the responses are not absorbed
CiphertextCommitmentEqualityProof_verify_w_before_z(proof, pubkey, ciphertext, commitment, transcript, c, w) ==
    LET t0 == DomainSeparator(transcript, "ciphertext-commitment-equality-proof")
        P == pubkey
        C_ciphertext == ciphertext.commitment
        D == ciphertext.handle
        C_commitment == commitment
        v0 == ValidateAndAppendPoint(t0, "Y_0", proof.Y_0)
        v1 == ValidateAndAppendPoint(v0.transcript, "Y_1", proof.Y_1)
        v2 == ValidateAndAppendPoint(v1.transcript, "Y_2", proof.Y_2)
        tc == ChallengeScalar(v2.transcript, "c")
        tw == ChallengeScalar(tc, "w")
        qs == << <<tc, c>>, <<tw, w>> >>
        Y_0 == Decompress(proof.Y_0)
        Y_1 == Decompress(proof.Y_1)
        Y_2 == Decompress(proof.Y_2)
    IN  IF ~v0.ok THEN Outcome(Deserialization, v0.transcript, <<>>)
        ELSE IF ~v1.ok THEN Outcome(Deserialization, v1.transcript, <<>>)
        ELSE IF ~v2.ok THEN Outcome(Deserialization, v2.transcript, <<>>)
        ELSE IF ~IsSome(Y_0) \/ ~IsSome(Y_1) \/ ~IsSome(Y_2)
             THEN Outcome(Deserialization, tw, qs)
        ELSE IF IsIdentity(CiphertextCommitmentEqualityProof_check(
                    proof, Unwrap(Y_0), Unwrap(Y_1), Unwrap(Y_2),
                    P, C_ciphertext, D, C_commitment, c, w))
             THEN Outcome(Ok, tw, qs)
        ELSE Outcome(AlgebraicRelation, tw, qs)

CiphertextCommitmentEqualityProof_verify(proof, pubkey, ciphertext, commitment, transcript, c, w) ==
    LET t0 == DomainSeparator(transcript, "ciphertext-commitment-equality-proof")
        P == pubkey
        C_ciphertext == ciphertext.commitment
        D == ciphertext.handle
        C_commitment == commitment
        v0 == ValidateAndAppendPoint(t0, "Y_0", proof.Y_0)
        v1 == ValidateAndAppendPoint(v0.transcript, "Y_1", proof.Y_1)
        v2 == ValidateAndAppendPoint(v1.transcript, "Y_2", proof.Y_2)
        tc == ChallengeScalar(v2.transcript, "c")
        t4 == AppendScalar(tc, "z_s", proof.z_s)
        t5 == AppendScalar(t4, "z_x", proof.z_x)
        t6 == AppendScalar(t5, "z_r", proof.z_r)
        tw == ChallengeScalar(t6, "w")
        qs == << <<tc, c>>, <<tw, w>> >>
        Y_0 == Decompress(proof.Y_0)
        Y_1 == Decompress(proof.Y_1)
        Y_2 == Decompress(proof.Y_2)
    IN  IF ~v0.ok THEN Outcome(Deserialization, v0.transcript, <<>>)
        ELSE IF ~v1.ok THEN Outcome(Deserialization, v1.transcript, <<>>)
        ELSE IF ~v2.ok THEN Outcome(Deserialization, v2.transcript, <<>>)
        ELSE IF ~IsSome(Y_0) \/ ~IsSome(Y_1) \/ ~IsSome(Y_2)
             THEN Outcome(Deserialization, tw, qs)
        ELSE IF IsIdentity(CiphertextCommitmentEqualityProof_check(
                    proof, Unwrap(Y_0), Unwrap(Y_1), Unwrap(Y_2),
                    P, C_ciphertext, D, C_commitment, c, w))
             THEN Outcome(Ok, tw, qs)
        ELSE Outcome(AlgebraicRelation, tw, qs)

----------------------------------------------------------------------------
(* ciphertext_ciphertext_equality.rs *)

\* mutant: the message copy x is not erased
CiphertextCiphertextEqualityProof_new_x_kept(first_keypair, second_pubkey, first_ciphertext, second_opening, amount, transcript, y_s, y_x, y_r, c, w) ==
    LET t0 == DomainSeparator(transcript, "ciphertext-ciphertext-equality-proof")
        P_first == first_keypair.pubkey
        D_first == first_ciphertext.handle
        P_second == second_pubkey
        s == first_keypair.secret
        x == ScalarFrom(amount)
        r == second_opening
        Y_0 == Compress(PointMul(y_s, P_first))
        Y_1 == Compress(MultiscalarMul(<<y_x, y_s>>, <<G, D_first>>))
        Y_2 == Compress(MultiscalarMul(<<y_x, y_r>>, <<G, H>>))
        Y_3 == Compress(PointMul(y_r, P_second))
        t1 == AppendPoint(t0, "Y_0", Y_0)
        t2 == AppendPoint(t1, "Y_1", Y_1)
        t3 == AppendPoint(t2, "Y_2", Y_2)
        t4 == AppendPoint(t3, "Y_3", Y_3)
        tc == ChallengeScalar(t4, "c")
        tw == ChallengeScalar(tc, "w")
        z_s == ScalarAdd(ScalarMul(c, s), y_s)
        z_x == ScalarAdd(ScalarMul(c, x), y_x)
        z_r == ScalarAdd(ScalarMul(c, r), y_r)
    IN  [proof |-> [Y_0 |-> Y_0, Y_1 |-> Y_1, Y_2 |-> Y_2, Y_3 |-> Y_3,
                    z_s |-> z_s, z_x |-> z_x, z_r |-> z_r],
         transcript |-> tw,
         queries |-> << <<tc, c>>, <<tw, w>> >>,
         locals |-> [x |-> x, y_s |-> Zeroize(y_s),
                     y_x |-> Zeroize(y_x), y_r |-> Zeroize(y_r)]]

\* mutant: the scalars are erased before the responses are computed
CiphertextCiphertextEqualityProof_new_erased_first(first_keypair, second_pubkey, first_ciphertext, second_opening, amount, transcript, y_s, y_x, y_r, c, w) ==
    LET t0 == DomainSeparator(transcript, "ciphertext-ciphertext-equality-proof")
        P_first == first_keypair.pubkey
        D_first == first_ciphertext.handle
        P_second == second_pubkey
        s == first_keypair.secret
        x == ScalarFrom(amount)
        r == second_opening
        Y_0 == Compress(PointMul(y_s, P_first))
        Y_1 == Compress(MultiscalarMul(<<y_x, y_s>>, <<G, D_first>>))
        Y_2 == Compress(MultiscalarMul(<<y_x, y_r>>, <<G, H>>))
        Y_3 == Compress(PointMul(y_r, P_second))
        t1 == AppendPoint(t0, "Y_0", Y_0)
        t2 == AppendPoint(t1, "Y_1", Y_1)
        t3 == AppendPoint(t2, "Y_2", Y_2)
        t4 == AppendPoint(t3, "Y_3", Y_3)
        tc == ChallengeScalar(t4, "c")
        tw == ChallengeScalar(tc, "w")
        z_s == ScalarAdd(ScalarMul(c, s), Zeroize(y_s))
        z_x == ScalarAdd(ScalarMul(c, Zeroize(x)), Zeroize(y_x))
        z_r == ScalarAdd(ScalarMul(c, r), Zeroize(y_r))
    IN  [proof |-> [Y_0 |-> Y_0, Y_1 |-> Y_1, Y_2 |-> Y_2, Y_3 |-> Y_3,
                    z_s |-> z_s, z_x |-> z_x, z_r |-> z_r],
         transcript |-> tw,
         queries |-> << <<tc, c>>, <<tw, w>> >>,
         locals |-> [x |-> Zeroize(x), y_s |-> Zeroize(y_s),
                     y_x |-> Zeroize(y_x), y_r |-> Zeroize(y_r)]]

CiphertextCiphertextEqualityProof_new(first_keypair, second_pubkey, first_ciphertext, second_opening, amount, transcript, y_s, y_x, y_r, c, w) ==
    LET t0 == DomainSeparator(transcript, "ciphertext-ciphertext-equality-proof")
        P_first == first_keypair.pubkey
        D_first == first_ciphertext.handle
        P_second == second_pubkey
        s == first_keypair.secret
        x == ScalarFrom(amount)
        r == second_opening
        Y_0 == Compress(PointMul(y_s, P_first))
        Y_1 == Compress(MultiscalarMul(<<y_x, y_s>>, <<G, D_first>>))
        Y_2 == Compress(MultiscalarMul(<<y_x, y_r>>, <<G, H>>))
        Y_3 == Compress(PointMul(y_r, P_second))
        t1 == AppendPoint(t0, "Y_0", Y_0)
        t2 == AppendPoint(t1, "Y_1", Y_1)
        t3 == AppendPoint(t2, "Y_2", Y_2)
        t4 == AppendPoint(t3, "Y_3", Y_3)
        tc == ChallengeScalar(t4, "c")
        tw == ChallengeScalar(tc, "w")
        z_s == ScalarAdd(ScalarMul(c, s), y_s)
        z_x == ScalarAdd(ScalarMul(c, x), y_x)
        z_r == ScalarAdd(ScalarMul(c, r), y_r)
    IN  [proof |-> [Y_0 |-> Y_0, Y_1 |-> Y_1, Y_2 |-> Y_2, Y_3 |-> Y_3,
                    z_s |-> z_s, z_x |-> z_x, z_r |-> z_r],
         transcript |-> tw,
         queries |-> << <<tc, c>>, <<tw, w>> >>,
         locals |-> [x |-> Zeroize(x), y_s |-> Zeroize(y_s),
                     y_x |-> Zeroize(y_x), y_r |-> Zeroize(y_r)]]

\* mutant: the third equation is checked against the first ciphertext
CiphertextCiphertextEqualityProof_check_same_C(proof, Y_0, Y_1, Y_2, Y_3, P_first, C_first, D_first, P_second, C_second, D_second, c, w) ==
    LET ww == ScalarMul(w, w)
        www == ScalarMul(w, ww)
        w_negated == ScalarNeg(w)
        ww_negated == ScalarNeg(ww)
        www_negated == ScalarNeg(www)
    IN  MultiscalarMul(
            << proof.z_s,
               ScalarNeg(c),
               ScalarNeg(ScalarONE),
               ScalarMul(w, proof.z_x),
               ScalarMul(w, proof.z_s),
               ScalarMul(w_negated, c),
               w_negated,
               ScalarMul(ww, proof.z_x),
               ScalarMul(ww, proof.z_r),
               ScalarMul(ww_negated, c),
               ww_negated,
               ScalarMul(www, proof.z_r),
               ScalarMul(www_negated, c),
               www_negated >>,
            << P_first, H, Y_0, G, D_first, C_first, Y_1, G, H, C_first, Y_2,
               P_second, D_second, Y_3 >>)

\* mutant: the points of www * z_r and -www * c are exchanged
CiphertextCiphertextEqualityProof_check_swapped(proof, Y_0, Y_1, Y_2, Y_3, P_first, C_first, D_first, P_second, C_second, D_second, c, w) ==
    LET ww == ScalarMul(w, w)
        www == ScalarMul(w, ww)
        w_negated == ScalarNeg(w)
        ww_negated == ScalarNeg(ww)
        www_negated == ScalarNeg(www)
    IN  MultiscalarMul(
            << proof.z_s,
               ScalarNeg(c),
               ScalarNeg(ScalarONE),
               ScalarMul(w, proof.z_x),
               ScalarMul(w, proof.z_s),
               ScalarMul(w_negated, c),
               w_negated,
               ScalarMul(ww, proof.z_x),
               ScalarMul(ww, proof.z_r),
               ScalarMul(ww_negated, c),
               ww_negated,
               ScalarMul(www, proof.z_r),
               ScalarMul(www_negated, c),
               www_negated >>,
            << P_first, H, Y_0, G, D_first, C_first, Y_1, G, H, C_second, Y_2,
               D_second, P_second, Y_3 >>)

\* the scalars of the multiscalar multiplication of verify()
CiphertextCiphertextEqualityProof_check_scalars(proof, c, w) ==
    LET ww == ScalarMul(w, w)
        www == ScalarMul(w, ww)
        w_negated == ScalarNeg(w)
        ww_negated == ScalarNeg(ww)
        www_negated == ScalarNeg(www)
    IN  << proof.z_s,
           ScalarNeg(c),
           ScalarNeg(ScalarONE),
           ScalarMul(w, proof.z_x),
           ScalarMul(w, proof.z_s),
           ScalarMul(w_negated, c),
           w_negated,
           ScalarMul(ww, proof.z_x),
           ScalarMul(ww, proof.z_r),
           ScalarMul(ww_negated, c),
           ww_negated,
           ScalarMul(www, proof.z_r),
           ScalarMul(www_negated, c),
           www_negated >>

\* the points of the multiscalar multiplication of verify()
CiphertextCiphertextEqualityProof_check_points(Y_0, Y_1, Y_2, Y_3, P_first, C_first, D_first, P_second, C_second, D_second) ==
    << P_first, H, Y_0, G, D_first, C_first, Y_1, G, H, C_second, Y_2,
       P_second, D_second, Y_3 >>

\* the 14-term multiscalar multiplication of verify()
CiphertextCiphertextEqualityProof_check(proof, Y_0, Y_1, Y_2, Y_3, P_first, C_first, D_first, P_second, C_second, D_second, c, w) ==
    MultiscalarMul(
        CiphertextCiphertextEqualityProof_check_scalars(proof, c, w),
        CiphertextCiphertextEqualityProof_check_points(
            Y_0, Y_1, Y_2, Y_3, P_first, C_first, D_first,
            P_second, C_second, D_second))

\* mutant: Y_3 is appended without validation
CiphertextCiphertextEqualityProof_verify_unvalidated_Y_3(proof, first_pubkey, second_pubkey, first_ciphertext, second_ciphertext, transcript, c, w) ==
    LET t0 == DomainSeparator(transcript, "ciphertext-ciphertext-equality-proof")
        P_first == first_pubkey
        C_first == first_ciphertext.commitment
        D_first == first_ciphertext.handle
        P_second == second_pubkey
        C_second == second_ciphertext.commitment
        D_second == second_ciphertext.handle
        v0 == ValidateAndAppendPoint(t0, "Y_0", proof.Y_0)
        v1 == ValidateAndAppendPoint(v0.transcript, "Y_1", proof.Y_1)
        v2 == ValidateAndAppendPoint(v1.transcript, "Y_2", proof.Y_2)
        v3 == [ok |-> TRUE,
               transcript |-> AppendPoint(v2.transcript, "Y_3", proof.Y_3)]
        tc == ChallengeScalar(v3.transcript, "c")
        t5 == AppendScalar(tc, "z_s", proof.z_s)
        t6 == AppendScalar(t5, "z_x", proof.z_x)
        t7 == AppendScalar(t6, "z_r", proof.z_r)
        tw == ChallengeScalar(t7, "w")
        qs == << <<tc, c>>, <<tw, w>> >>
        Y_0 == Decompress(proof.Y_0)
        Y_1 == Decompress(proof.Y_1)
        Y_2 == Decompress(proof.Y_2)
        Y_3 == Decompress(proof.Y_3)
    IN  IF ~v0.ok THEN Outcome(Deserialization, v0.transcript, <<>>)
        ELSE IF ~v1.ok THEN Outcome(Deserialization, v1.transcript, <<>>)
        ELSE IF ~v2.ok THEN Outcome(Deserialization, v2.transcript, <<>>)
        ELSE IF ~v3.ok THEN Outcome(Deserialization, v3.transcript, <<>>)
        ELSE IF ~IsSome(Y_0) \/ ~IsSome(Y_1) \/ ~IsSome(Y_2) \/ ~IsSome(Y_3)
             THEN Outcome(Deserialization, tw, qs)
        ELSE IF IsIdentity(CiphertextCiphertextEqualityProof_check(
                    proof, Unwrap(Y_0), Unwrap(Y_1), Unwrap(Y_2), Unwrap(Y_3),
                    P_first, C_first, D_first, P_second, C_second, D_second,
                    c, w))
             THEN Outcome(Ok, tw, qs)
        ELSE Outcome(AlgebraicRelation, tw, qs)

CiphertextCiphertextEqualityProof_verify(proof, first_pubkey, second_pubkey, first_ciphertext, second_ciphertext, transcript, c, w) ==
    LET t0 == DomainSeparator(transcript, "ciphertext-ciphertext-equality-proof")
        P_first == first_pubkey
        C_first == first_ciphertext.commitment
        D_first == first_ciphertext.handle
        P_second == second_pubkey
        C_second == second_ciphertext.commitment
        D_second == second_ciphertext.handle
        v0 == ValidateAndAppendPoint(t0, "Y_0", proof.Y_0)
        v1 == ValidateAndAppendPoint(v0.transcript, "Y_1", proof.Y_1)
        v2 == ValidateAndAppendPoint(v1.transcript, "Y_2", proof.Y_2)
        v3 == ValidateAndAppendPoint(v2.transcript, "Y_3", proof.Y_3)
        tc == ChallengeScalar(v3.transcript, "c")
        t5 == AppendScalar(tc, "z_s", proof.z_s)
        t6 == AppendScalar(t5, "z_x", proof.z_x)
        t7 == AppendScalar(t6, "z_r", proof.z_r)
        tw == ChallengeScalar(t7, "w")
        qs == << <<tc, c>>, <<tw, w>> >>
        Y_0 == Decompress(proof.Y_0)
        Y_1 == Decompress(proof.Y_1)
        Y_2 == Decompress(proof.Y_2)
        Y_3 == Decompress(proof.Y_3)
    IN  IF ~v0.ok THEN Outcome(Deserialization, v0.transcript, <<>>)
        ELSE IF ~v1.ok THEN Outcome(Deserialization, v1.transcript, <<>>)
        ELSE IF ~v2.ok THEN Outcome(Deserialization, v2.transcript, <<>>)
        ELSE IF ~v3.ok THEN Outcome(Deserialization, v3.transcript, <<>>)
        ELSE IF ~IsSome(Y_0) \/ ~IsSome(Y_1) \/ ~IsSome(Y_2) \/ ~IsSome(Y_3)
             THEN Outcome(Deserialization, tw, qs)
        ELSE IF IsIdentity(CiphertextCiphertextEqualityProof_check(
                    proof, Unwrap(Y_0), Unwrap(Y_1), Unwrap(Y_2), Unwrap(Y_3),
                    P_first, C_first, D_first, P_second, C_second, D_second,
                    c, w))
             THEN Outcome(Ok, tw, qs)
        ELSE Outcome(AlgebraicRelation, tw, qs)

----------------------------------------------------------------------------
(* zero_ciphertext.rs *)

\* mutant: Y_P masks H instead of P
ZeroCiphertextProof_new_mask_H(elgamal_keypair, ciphertext, transcript, y, c, w) ==
    LET t0 == DomainSeparator(transcript, "zero-ciphertext-proof")
        P == elgamal_keypair.pubkey
        s == elgamal_keypair.secret
        D == ciphertext.handle
        Y_P == Compress(PointMul(y, H))
        Y_D == Compress(PointMul(y, D))
        t1 == AppendPoint(t0, "Y_P", Y_P)
        t2 == AppendPoint(t1, "Y_D", Y_D)
        tc == ChallengeScalar(t2, "c")
        tw == ChallengeScalar(tc, "w")
        z == ScalarAdd(ScalarMul(c, s), y)
    IN  [proof |-> [Y_P |-> Y_P, Y_D |-> Y_D, z |-> z],
         transcript |-> tw,
         queries |-> << <<tc, c>>, <<tw, w>> >>,
         locals |-> [y |-> Zeroize(y)]]

\* mutant: no proof is built for an identity public key
ZeroCiphertextProof_new_guarded(elgamal_keypair, ciphertext, transcript, y, c, w) ==
    LET t0 == DomainSeparator(transcript, "zero-ciphertext-proof")
        P == elgamal_keypair.pubkey
        s == elgamal_keypair.secret
        D == ciphertext.handle
        Y_P == Compress(PointMul(y, P))
        Y_D == Compress(PointMul(y, D))
        t1 == AppendPoint(t0, "Y_P", Y_P)
        t2 == AppendPoint(t1, "Y_D", Y_D)
        tc == ChallengeScalar(t2, "c")
        tw == ChallengeScalar(tc, "w")
        z == ScalarAdd(ScalarMul(c, s), y)
    IN  IF IsIdentity(P)
        THEN [proof |-> <<>>, transcript |-> t0, queries |-> <<>>,
              locals |-> <<>>]
        ELSE [proof |-> [Y_P |-> Y_P, Y_D |-> Y_D, z |-> z],
              transcript |-> tw,
              queries |-> << <<tc, c>>, <<tw, w>> >>,
              locals |-> [y |-> Zeroize(y)]]

ZeroCiphertextProof_new(elgamal_keypair, ciphertext, transcript, y, c, w) ==
    LET t0 == DomainSeparator(transcript, "zero-ciphertext-proof")
        P == elgamal_keypair.pubkey
        s == elgamal_keypair.secret
        D == ciphertext.handle
        Y_P == Compress(PointMul(y, P))
        Y_D == Compress(PointMul(y, D))
        t1 == AppendPoint(t0, "Y_P", Y_P)
        t2 == AppendPoint(t1, "Y_D", Y_D)
        tc == ChallengeScalar(t2, "c")
        tw == ChallengeScalar(tc, "w")
        z == ScalarAdd(ScalarMul(c, s), y)
    IN  [proof |-> [Y_P |-> Y_P, Y_D |-> Y_D, z |-> z],
         transcript |-> tw,
         queries |-> << <<tc, c>>, <<tw, w>> >>,
         locals |-> [y |-> Zeroize(y)]]

\* mutant: -w * c multiplies H instead of the ciphertext's commitment
ZeroCiphertextProof_check_H(proof, Y_P, Y_D, P, C, D, c, w) ==
    LET w_negated == ScalarNeg(w)
    IN  MultiscalarMul(
            << proof.z,
               ScalarNeg(c),
               ScalarNeg(ScalarONE),
               ScalarMul(w, proof.z),
               ScalarMul(w_negated, c),
               w_negated >>,
            << P, H, Y_P, D, H, Y_D >>)

\* mutant: Y_D is added instead of subtracted
ZeroCiphertextProof_check_sign(proof, Y_P, Y_D, P, C, D, c, w) ==
    LET w_negated == ScalarNeg(w)
    IN  MultiscalarMul(
            << proof.z,
               ScalarNeg(c),
               ScalarNeg(ScalarONE),
               ScalarMul(w, proof.z),
               ScalarMul(w_negated, c),
               w >>,
            << P, H, Y_P, D, C, Y_D >>)

\* mutant: the equation of the handle is left out of the batch
ZeroCiphertextProof_check_first_only(proof, Y_P, Y_D, P, C, D, c, w) ==
    MultiscalarMul(
        << proof.z,
           ScalarNeg(c),
           ScalarNeg(ScalarONE) >>,
        << P, H, Y_P >>)

\* mutant: the weight w is left off the last term, -Y_D
ZeroCiphertextProof_check_scalars_unweighted_Y_D(proof, c, w) ==
    LET w_negated == ScalarNeg(w)
    IN  << proof.z,
           ScalarNeg(c),
           ScalarNeg(ScalarONE),
           ScalarMul(w, proof.z),
           ScalarMul(w_negated, c),
           ScalarNeg(ScalarONE) >>

\* the scalars of the multiscalar multiplication of verify()
ZeroCiphertextProof_check_scalars(proof, c, w) ==
    LET w_negated == ScalarNeg(w)
    IN  << proof.z,
           ScalarNeg(c),
           ScalarNeg(ScalarONE),
           ScalarMul(w, proof.z),
           ScalarMul(w_negated, c),
           w_negated >>

\* the points of the multiscalar multiplication of verify()
ZeroCiphertextProof_check_points(Y_P, Y_D, P, C, D) ==
    << P, H, Y_P, D, C, Y_D >>

\* the 6-term multiscalar multiplication of verify()
ZeroCiphertextProof_check(proof, Y_P, Y_D, P, C, D, c, w) ==
    MultiscalarMul(ZeroCiphertextProof_check_scalars(proof, c, w),
                   ZeroCiphertextProof_check_points(Y_P, Y_D, P, C, D))

\* mutant: an identity public key is refused before anything is absorbed
ZeroCiphertextProof_verify_guarded(proof, elgamal_pubkey, ciphertext, transcript, c, w) ==
    LET t0 == DomainSeparator(transcript, "zero-ciphertext-proof")
        P == elgamal_pubkey
        C == ciphertext.commitment
        D == ciphertext.handle
        v0 == ValidateAndAppendPoint(t0, "Y_P", proof.Y_P)
        t2 == AppendPoint(v0.transcript, "Y_D", proof.Y_D)
        tc == ChallengeScalar(t2, "c")
        t3 == AppendScalar(tc, "z", proof.z)
        tw == ChallengeScalar(t3, "w")
        qs == << <<tc, c>>, <<tw, w>> >>
        Y_P == Decompress(proof.Y_P)
        Y_D == Decompress(proof.Y_D)
    IN  IF IsIdentity(P) THEN Outcome(PubkeyIsIdentity, t0, <<>>)
        ELSE IF ~v0.ok THEN Outcome(Deserialization, v0.transcript, <<>>)
        ELSE IF ~IsSome(Y_P) \/ ~IsSome(Y_D)
             THEN Outcome(Deserialization, tw, qs)
        ELSE IF IsIdentity(ZeroCiphertextProof_check(
                    proof, Unwrap(Y_P), Unwrap(Y_D), P, C, D, c, w))
             THEN Outcome(Ok, tw, qs)
        ELSE Outcome(AlgebraicRelation, tw, qs)

\* mutant: Y_D is validated before it is appended, as Y_P is
ZeroCiphertextProof_verify_validated_Y_D(proof, elgamal_pubkey, ciphertext, transcript, c, w) ==
    LET t0 == DomainSeparator(transcript, "zero-ciphertext-proof")
        P == elgamal_pubkey
        C == ciphertext.commitment
        D == ciphertext.handle
        v0 == ValidateAndAppendPoint(t0, "Y_P", proof.Y_P)
        v1 == ValidateAndAppendPoint(v0.transcript, "Y_D", proof.Y_D)
        t2 == v1.transcript
        tc == ChallengeScalar(t2, "c")
        t3 == AppendScalar(tc, "z", proof.z)
        tw == ChallengeScalar(t3, "w")
        qs == << <<tc, c>>, <<tw, w>> >>
        Y_P == Decompress(proof.Y_P)
        Y_D == Decompress(proof.Y_D)
    IN  IF ~v0.ok THEN Outcome(Deserialization, v0.transcript, <<>>)
        ELSE IF ~v1.ok THEN Outcome(Deserialization, v1.transcript, <<>>)
        ELSE IF ~IsSome(Y_P) \/ ~IsSome(Y_D)
             THEN Outcome(Deserialization, tw, qs)
        ELSE IF IsIdentity(ZeroCiphertextProof_check(
                    proof, Unwrap(Y_P), Unwrap(Y_D), P, C, D, c, w))
             THEN Outcome(Ok, tw, qs)
        ELSE Outcome(AlgebraicRelation, tw, qs)

ZeroCiphertextProof_verify(proof, elgamal_pubkey, ciphertext, transcript, c, w) ==
    LET t0 == DomainSeparator(transcript, "zero-ciphertext-proof")
        P == elgamal_pubkey
        C == ciphertext.commitment
        D == ciphertext.handle
        v0 == ValidateAndAppendPoint(t0, "Y_P", proof.Y_P)
        t2 == AppendPoint(v0.transcript, "Y_D", proof.Y_D)
        tc == ChallengeScalar(t2, "c")
        t3 == AppendScalar(tc, "z", proof.z)
        tw == ChallengeScalar(t3, "w")
        qs == << <<tc, c>>, <<tw, w>> >>
        Y_P == Decompress(proof.Y_P)
        Y_D == Decompress(proof.Y_D)
    IN  IF ~v0.ok THEN Outcome(Deserialization, v0.transcript, <<>>)
        ELSE IF ~IsSome(Y_P) \/ ~IsSome(Y_D)
             THEN Outcome(Deserialization, tw, qs)
        ELSE IF IsIdentity(ZeroCiphertextProof_check(
                    proof, Unwrap(Y_P), Unwrap(Y_D), P, C, D, c, w))
             THEN Outcome(Ok, tw, qs)
        ELSE Outcome(AlgebraicRelation, tw, qs)

----------------------------------------------------------------------------
(* Wire format: to_bytes / from_bytes *)

\* bytes.chunks(UNIT_LEN): full chunks, then a shorter last one if any
ChunkCount(bytes) == (Len(bytes) + UNIT_LEN - 1) \div UNIT_LEN
\* the k-th chunks.next()
ChunksNext(bytes, k) ==
    IF k <= ChunkCount(bytes)
    THEN Some(SubSeq(bytes, (k - 1) * UNIT_LEN + 1, Min(k * UNIT_LEN, Len(bytes))))
    ELSE None

CIPHERTEXT_COMMITMENT_EQUALITY_PROOF_LEN == UNIT_LEN * 6
CIPHERTEXT_CIPHERTEXT_EQUALITY_PROOF_LEN == UNIT_LEN * 7
ZERO_CIPHERTEXT_PROOF_LEN == UNIT_LEN * 3

ristretto_point_from_optional_slice(optional_slice) ==
    IF ~IsSome(optional_slice) THEN None
    ELSE IF Len(Unwrap(optional_slice)) # UNIT_LEN THEN None
    ELSE IF ~IsSome(Decompress(Unwrap(optional_slice))) THEN None
    ELSE Some(Unwrap(optional_slice))

canonical_scalar_from_optional_slice(optional_slice) ==
    IF ~IsSome(optional_slice) THEN None
    ELSE IF Len(Unwrap(optional_slice)) # UNIT_LEN THEN None
    ELSE FromCanonicalBytes(Unwrap(optional_slice))

Parsed(proof) == [result |-> Ok, proof |-> proof]
ParseError == [result |-> Deserialization, proof |-> <<>>]

CiphertextCommitmentEqualityProof_to_bytes(proof) ==
    LET fields == << proof.Y_0, proof.Y_1, proof.Y_2,
                     ScalarAsBytes(proof.z_s), ScalarAsBytes(proof.z_x),
                     ScalarAsBytes(proof.z_r) >>
    IN  [i \in 1..CIPHERTEXT_COMMITMENT_EQUALITY_PROOF_LEN |->
            fields[((i - 1) \div UNIT_LEN) + 1][((i - 1) % UNIT_LEN) + 1]]

RECURSIVE ModOrderFrom(_, _)
ModOrderFrom(bytes, i) ==
    IF i > Len(bytes) THEN 0
    ELSE (bytes[i] + BYTE * ModOrderFrom(bytes, i + 1)) % L

\* mutant: z_r is reduced modulo L instead of being refused when not canonical
CiphertextCommitmentEqualityProof_from_bytes_mod_order(bytes) ==
    LET Y_0 == ristretto_point_from_optional_slice(ChunksNext(bytes, 1))
        Y_1 == ristretto_point_from_optional_slice(ChunksNext(bytes, 2))
        Y_2 == ristretto_point_from_optional_slice(ChunksNext(bytes, 3))
        z_s == canonical_scalar_from_optional_slice(ChunksNext(bytes, 4))
        z_x == canonical_scalar_from_optional_slice(ChunksNext(bytes, 5))
        z_r == IF IsSome(ChunksNext(bytes, 6))
                  /\ Len(Unwrap(ChunksNext(bytes, 6))) = UNIT_LEN
               THEN Some(ModOrderFrom(Unwrap(ChunksNext(bytes, 6)), 1))
               ELSE None
    IN  IF ~IsSome(Y_0) \/ ~IsSome(Y_1) \/ ~IsSome(Y_2)
           \/ ~IsSome(z_s) \/ ~IsSome(z_x) \/ ~IsSome(z_r)
        THEN ParseError
        ELSE Parsed([Y_0 |-> Unwrap(Y_0), Y_1 |-> Unwrap(Y_1),
                     Y_2 |-> Unwrap(Y_2), z_s |-> Unwrap(z_s),
                     z_x |-> Unwrap(z_x), z_r |-> Unwrap(z_r)])

CiphertextCommitmentEqualityProof_from_bytes(bytes) ==
    LET Y_0 == ristretto_point_from_optional_slice(ChunksNext(bytes, 1))
        Y_1 == ristretto_point_from_optional_slice(ChunksNext(bytes, 2))
        Y_2 == ristretto_point_from_optional_slice(ChunksNext(bytes, 3))
        z_s == canonical_scalar_from_optional_slice(ChunksNext(bytes, 4))
        z_x == canonical_scalar_from_optional_slice(ChunksNext(bytes, 5))
        z_r == canonical_scalar_from_optional_slice(ChunksNext(bytes, 6))
    IN  IF ~IsSome(Y_0) \/ ~IsSome(Y_1) \/ ~IsSome(Y_2)
           \/ ~IsSome(z_s) \/ ~IsSome(z_x) \/ ~IsSome(z_r)
        THEN ParseError
        ELSE Parsed([Y_0 |-> Unwrap(Y_0), Y_1 |-> Unwrap(Y_1),
                     Y_2 |-> Unwrap(Y_2), z_s |-> Unwrap(z_s),
                     z_x |-> Unwrap(z_x), z_r |-> Unwrap(z_r)])

\* mutant: z_x is written before z_s
CiphertextCiphertextEqualityProof_to_bytes_swapped(proof) ==
    LET fields == << proof.Y_0, proof.Y_1, proof.Y_2, proof.Y_3,
                     ScalarAsBytes(proof.z_x), ScalarAsBytes(proof.z_s),
                     ScalarAsBytes(proof.z_r) >>
    IN  [i \in 1..CIPHERTEXT_CIPHERTEXT_EQUALITY_PROOF_LEN |->
            fields[((i - 1) \div UNIT_LEN) + 1][((i - 1) % UNIT_LEN) + 1]]

CiphertextCiphertextEqualityProof_to_bytes(proof) ==
    LET fields == << proof.Y_0, proof.Y_1, proof.Y_2, proof.Y_3,
                     ScalarAsBytes(proof.z_s), ScalarAsBytes(proof.z_x),
                     ScalarAsBytes(proof.z_r) >>
    IN  [i \in 1..CIPHERTEXT_CIPHERTEXT_EQUALITY_PROOF_LEN |->
            fields[((i - 1) \div UNIT_LEN) + 1][((i - 1) % UNIT_LEN) + 1]]

CiphertextCiphertextEqualityProof_from_bytes(bytes) ==
    LET Y_0 == ristretto_point_from_optional_slice(ChunksNext(bytes, 1))
        Y_1 == ristretto_point_from_optional_slice(ChunksNext(bytes, 2))
        Y_2 == ristretto_point_from_optional_slice(ChunksNext(bytes, 3))
        Y_3 == ristretto_point_from_optional_slice(ChunksNext(bytes, 4))
        z_s == canonical_scalar_from_optional_slice(ChunksNext(bytes, 5))
        z_x == canonical_scalar_from_optional_slice(ChunksNext(bytes, 6))
        z_r == canonical_scalar_from_optional_slice(ChunksNext(bytes, 7))
    IN  IF ~IsSome(Y_0) \/ ~IsSome(Y_1) \/ ~IsSome(Y_2) \/ ~IsSome(Y_3)
           \/ ~IsSome(z_s) \/ ~IsSome(z_x) \/ ~IsSome(z_r)
        THEN ParseError
        ELSE Parsed([Y_0 |-> Unwrap(Y_0), Y_1 |-> Unwrap(Y_1),
                     Y_2 |-> Unwrap(Y_2), Y_3 |-> Unwrap(Y_3),
                     z_s |-> Unwrap(z_s), z_x |-> Unwrap(z_x),
                     z_r |-> Unwrap(z_r)])

ZeroCiphertextProof_to_bytes(proof) ==
    LET fields == << proof.Y_P, proof.Y_D, ScalarAsBytes(proof.z) >>
    IN  [i \in 1..ZERO_CIPHERTEXT_PROOF_LEN |->
            fields[((i - 1) \div UNIT_LEN) + 1][((i - 1) % UNIT_LEN) + 1]]

\* mutant: Y_D is read from the first chunk and Y_P from the second
ZeroCiphertextProof_from_bytes_swapped(bytes) ==
    LET Y_D == ristretto_point_from_optional_slice(ChunksNext(bytes, 1))
        Y_P == ristretto_point_from_optional_slice(ChunksNext(bytes, 2))
        z == canonical_scalar_from_optional_slice(ChunksNext(bytes, 3))
    IN  IF ~IsSome(Y_P) \/ ~IsSome(Y_D) \/ ~IsSome(z)
        THEN ParseError
        ELSE Parsed([Y_P |-> Unwrap(Y_P), Y_D |-> Unwrap(Y_D), z |-> Unwrap(z)])

ZeroCiphertextProof_from_bytes(bytes) ==
    LET Y_P == ristretto_point_from_optional_slice(ChunksNext(bytes, 1))
        Y_D == ristretto_point_from_optional_slice(ChunksNext(bytes, 2))
        z == canonical_scalar_from_optional_slice(ChunksNext(bytes, 3))
    IN  IF ~IsSome(Y_P) \/ ~IsSome(Y_D) \/ ~IsSome(z)
        THEN ParseError
        ELSE Parsed([Y_P |-> Unwrap(Y_P), Y_D |-> Unwrap(Y_D), z |-> Unwrap(z)])

----------------------------------------------------------------------------
(* State *)

VARIABLES
    st,        \* the statement and the prover's witness
    pt,        \* prover's transcript
    vt,        \* verifier's transcript
    dt,        \* transcript of the verifier of the decoded proof
    start,     \* <<prover's, verifier's>> transcript before new() and verify()
    oracle,    \* answers given so far, by transcript history
    proof,     \* the proof new() returned
    pchal,     \* <<c, w>> derived in new()
    result,    \* what verify() returned
    vchal,     \* <<c, w>> derived in verify(), <<>> if it returned before
    buf,       \* bytes on the wire
    decoded,   \* what from_bytes() returned
    dresult,   \* what verify() of the decoded proof returned
    locals,    \* the prover's local scalars as new() left them
    pc

vars == <<st, pt, vt, dt, start, oracle, proof, pchal, result, vchal, buf, decoded,
          dresult, locals, pc>>

CtCmtStatement(s, x, r, x2, r2) ==
    [kind |-> "ciphertext_commitment",
     keypair |-> Keypair(s), amount |-> x, r |-> r,
     ciphertext |-> EncryptWith(Keypair(s).pubkey, x, r),
     second_pubkey |-> Identity, second_amount |-> x2, second_opening |-> r2,
     commitment |-> PedersenWith(x2, r2), second_handle |-> Identity]

CtCtStatement(s, x, r, P2, x2, r2) ==
    [kind |-> "ciphertext_ciphertext",
     keypair |-> Keypair(s), amount |-> x, r |-> r,
     ciphertext |-> EncryptWith(Keypair(s).pubkey, x, r),
     second_pubkey |-> P2, second_amount |-> x2, second_opening |-> r2,
     commitment |-> EncryptWith(P2, x2, r2).commitment,
     second_handle |-> EncryptWith(P2, x2, r2).handle]

ZeroStatement(s, x, r) ==
    [kind |-> "zero_ciphertext",
     keypair |-> Keypair(s), amount |-> x, r |-> r,
     ciphertext |-> EncryptWith(Keypair(s).pubkey, x, r),
     second_pubkey |-> Identity, second_amount |-> 0, second_opening |-> 0,
     commitment |-> Identity, second_handle |-> Identity]

SecondPubkeys == {PointMul(k, H) : k \in 0..Min(MaxSecret - 1, L - 1)}

StatementsOf(secrets, amounts, openings) ==
    {CtCmtStatement(s, x, r, x2, r2) :
        s \in secrets, x \in amounts, r \in openings,
        x2 \in amounts, r2 \in openings}
    \cup {CtCtStatement(s, x, r, P2, x2, r2) :
        s \in secrets, x \in amounts, r \in openings, P2 \in SecondPubkeys,
        x2 \in amounts, r2 \in openings}
    \cup {ZeroStatement(s, x, r) :
        s \in secrets, x \in amounts, r \in openings}

Statements == StatementsOf(Secrets, Amounts, Openings)

\* the statement e for another keypair: the first ciphertext is encrypted
\* under that keypair's public key
WithKeypair(e, keypair) ==
    [e EXCEPT !.keypair = keypair,
              !.ciphertext = EncryptWith(keypair.pubkey, e.amount, e.r)]

\* both encodings hold the same message
SameMessage(e) == e.kind = "zero_ciphertext" \/ e.amount = e.second_amount

\* the public key is the all-zero (identity) point
IdentityPubkey(e) ==
    WithKeypair(e, ElGamalKeypair_new_for_tests(Identity, e.keypair.secret))
IdentityPubkeyStatements ==
    {IdentityPubkey(e) : e \in {e \in Statements : SameMessage(e)}}

\* the statement is true: both encodings hold the same message, the
\* ciphertext of the zero-ciphertext proof holds 0
IsTrue(e) ==
    IF e.kind = "zero_ciphertext" THEN e.amount = 0
    ELSE e.amount = e.second_amount

\* the public key is s * G
GeneratorPubkeyStatements ==
    {WithKeypair(e, ElGamalKeypair_new_for_tests(PointMul(e.keypair.secret, G),
                                                 e.keypair.secret)) :
        e \in {e \in StatementsOf(Secrets, Amounts, {Min(MaxOpening, L - 1)}) :
                  IsTrue(e)}}

\* true statements for keypairs with s * P = H
OrdinaryStatements ==
    {e \in StatementsOf({Min(MaxSecret, L - 1)}, Amounts,
                        {Min(MaxOpening, L - 1)}) : IsTrue(e)}

\* exactly one of the ciphertext's commitment and handle is the identity
HalfZeroStatements ==
    {[ZeroStatement(s, 0, r) EXCEPT !.ciphertext.commitment = Identity] :
        s \in Secrets, r \in Openings \ {0}}
    \cup {[ZeroStatement(s, 0, r) EXCEPT !.ciphertext.handle = Identity] :
        s \in Secrets, r \in Openings \ {0}}

\* the message given to new() is not the one the first ciphertext holds
InconsistentWitnessStatements ==
    {[e EXCEPT !.amount = e.amount + 1] :
        e \in {e \in StatementsOf({Min(MaxSecret, L - 1)}, Amounts,
                                  {Min(MaxOpening, L - 1)}) :
                  e.kind # "zero_ciphertext"}}

EdgeStatements ==
    IdentityPubkeyStatements \cup GeneratorPubkeyStatements
    \cup HalfZeroStatements \cup InconsistentWitnessStatements
    \cup OrdinaryStatements

second_ciphertext(s) ==
    [commitment |-> s.commitment, handle |-> s.second_handle]

InitWith(statements, transcripts) ==
    /\ st \in statements
    /\ pt = TranscriptNew("Test")
    /\ vt \in transcripts
    /\ dt = vt
    /\ start = <<pt, vt>>
    /\ oracle = <<>>
    /\ proof = <<>>
    /\ pchal = <<>>
    /\ result = "none"
    /\ vchal = <<>>
    /\ buf = <<>>
    /\ decoded = <<>>
    /\ dresult = "none"
    /\ locals = <<>>
    /\ pc = "start"

Init == InitWith(Statements, {TranscriptNew("Test")})

\* the fields of the proof structs, in declared order, masking points first
PointFields(kind) ==
    CASE kind = "ciphertext_commitment" -> <<"Y_0", "Y_1", "Y_2">>
      [] kind = "ciphertext_ciphertext" -> <<"Y_0", "Y_1", "Y_2", "Y_3">>
      [] kind = "zero_ciphertext" -> <<"Y_P", "Y_D">>
ScalarFields(kind) ==
    CASE kind = "ciphertext_commitment" -> <<"z_s", "z_x", "z_r">>
      [] kind = "ciphertext_ciphertext" -> <<"z_s", "z_x", "z_r">>
      [] kind = "zero_ciphertext" -> <<"z">>
Range(seq) == {seq[i] : i \in 1..Len(seq)}

----------------------------------------------------------------------------
(* Prover *)

Proved(out, c, w) ==
    /\ Answers(oracle, out.queries)
    /\ oracle' = Record(oracle, out.queries)
    /\ proof' = out.proof
    /\ pt' = out.transcript
    /\ pchal' = <<c, w>>
    /\ locals' = out.locals
    /\ pc' = "proved"
    /\ UNCHANGED <<st, vt, dt, start, result, vchal, buf, decoded, dresult>>

NewCiphertextCommitment ==
    /\ pc = "start"
    /\ st.kind = "ciphertext_commitment"
    /\ \E y_s \in Masks, y_x \in Masks, y_r \in Masks,
          c \in Challenges, w \in Challenges :
          Proved(CiphertextCommitmentEqualityProof_new(
                     st.keypair, st.ciphertext, st.second_opening, st.amount,
                     pt, y_s, y_x, y_r, c, w), c, w)

NewCiphertextCiphertext ==
    /\ pc = "start"
    /\ st.kind = "ciphertext_ciphertext"
    /\ \E y_s \in Masks, y_x \in Masks, y_r \in Masks,
          c \in Challenges, w \in Challenges :
          Proved(CiphertextCiphertextEqualityProof_new(
                     st.keypair, st.second_pubkey, st.ciphertext,
                     st.second_opening, st.amount,
                     pt, y_s, y_x, y_r, c, w), c, w)

NewZeroCiphertext ==
    /\ pc = "start"
    /\ st.kind = "zero_ciphertext"
    /\ \E y \in Masks, c \in Challenges, w \in Challenges :
          Proved(ZeroCiphertextProof_new(st.keypair, st.ciphertext, pt, y, c, w),
                 c, w)

----------------------------------------------------------------------------
(* Verifier *)

\* verify() of the proof type of statement s
Verify(s, p, transcript, c, w) ==
    CASE s.kind = "ciphertext_commitment" ->
            CiphertextCommitmentEqualityProof_verify(
                p, s.keypair.pubkey, s.ciphertext, s.commitment, transcript, c, w)
      [] s.kind = "ciphertext_ciphertext" ->
            CiphertextCiphertextEqualityProof_verify(
                p, s.keypair.pubkey, s.second_pubkey, s.ciphertext,
                second_ciphertext(s), transcript, c, w)
      [] s.kind = "zero_ciphertext" ->
            ZeroCiphertextProof_verify(
                p, s.keypair.pubkey, s.ciphertext, transcript, c, w)

Derived(out, c, w) == IF out.queries = <<>> THEN <<>> ELSE <<c, w>>

Verified(out, c, w) ==
    /\ Answers(oracle, out.queries)
    /\ oracle' = Record(oracle, out.queries)
    /\ result' = out.result
    /\ vt' = out.transcript
    /\ vchal' = Derived(out, c, w)
    /\ pc' = "verified"
    /\ UNCHANGED <<st, pt, dt, start, proof, pchal, buf, decoded, dresult,
                   locals>>

VerifyCiphertextCommitment ==
    /\ pc = "proved"
    /\ st.kind = "ciphertext_commitment"
    /\ \E c \in Challenges, w \in Challenges :
          Verified(Verify(st, proof, vt, c, w), c, w)

VerifyCiphertextCiphertext ==
    /\ pc = "proved"
    /\ st.kind = "ciphertext_ciphertext"
    /\ \E c \in Challenges, w \in Challenges :
          Verified(Verify(st, proof, vt, c, w), c, w)

VerifyZeroCiphertext ==
    /\ pc = "proved"
    /\ st.kind = "zero_ciphertext"
    /\ \E c \in Challenges, w \in Challenges :
          Verified(Verify(st, proof, vt, c, w), c, w)

----------------------------------------------------------------------------
(* A proof value that new() did not build *)

MaxMalformed == 2

\* CompressedRistretto values that are the encoding of no point: the low
\* bit set, a value not below L
MalformedPoints ==
    {[Compress(G) EXCEPT ![1] = @ + 1],
     [i \in 1..UNIT_LEN |-> IF i = 1 THEN 2 * L ELSE 0]}

MalformedFields(kind, p) ==
    {f \in Range(PointFields(kind)) : ~IsSome(Decompress(p[f]))}

\* a masking point of the proof is replaced by a malformed one
Malform ==
    /\ pc = "proved"
    /\ Cardinality(MalformedFields(st.kind, proof)) < MaxMalformed
    /\ \E f \in Range(PointFields(st.kind)) \ MalformedFields(st.kind, proof),
          bad \in MalformedPoints :
          proof' = [proof EXCEPT ![f] = bad]
    /\ UNCHANGED <<st, pt, vt, dt, start, oracle, pchal, result, vchal, buf,
                   decoded, dresult, locals, pc>>

----------------------------------------------------------------------------
(* Wire: serialization, bytes changed in transit, deserialization *)

ToBytes(kind, bytes) ==
    /\ pc \in {"proved", "verified"}
    /\ st.kind = kind
    /\ buf' = bytes
    /\ pc' = "serialized"
    /\ UNCHANGED <<st, pt, vt, dt, start, oracle, proof, pchal, result, vchal,
                   decoded, dresult, locals>>

ToBytesCiphertextCommitment ==
    ToBytes("ciphertext_commitment",
            CiphertextCommitmentEqualityProof_to_bytes(proof))

ToBytesCiphertextCiphertext ==
    ToBytes("ciphertext_ciphertext",
            CiphertextCiphertextEqualityProof_to_bytes(proof))

ToBytesZeroCiphertext ==
    ToBytes("zero_ciphertext", ZeroCiphertextProof_to_bytes(proof))

Tampered(bytes) ==
    /\ pc = "serialized"
    /\ bytes # buf
    /\ buf' = bytes
    /\ pc' = "tampered"
    /\ UNCHANGED <<st, pt, vt, dt, start, oracle, proof, pchal, result, vchal,
                   decoded, dresult, locals>>

TruncatedLengths(bytes) ==
    {n \in {0, 1, UNIT_LEN - 1, UNIT_LEN, Len(bytes) - UNIT_LEN, Len(bytes) - 1} :
        n >= 0 /\ n < Len(bytes)}
ExtraBytes == {<<0>>, <<BYTE - 1>>, [i \in 1..UNIT_LEN |-> 0]}
\* byte values around the limits of the canonical encodings
ChangedBytes == {1, L - 1, L, 2 * (L - 1), 2 * L, BYTE - 1}
ChangedPositions == {1, UNIT_LEN}

Truncate == \E n \in TruncatedLengths(buf) : Tampered(SubSeq(buf, 1, n))

Extend == \E extra \in ExtraBytes : Tampered(buf \o extra)

Corrupt ==
    \E k \in 1..ChunkCount(buf), i \in ChangedPositions, b \in ChangedBytes :
        /\ i = 1 \/ b = BYTE - 1
        /\ Tampered([buf EXCEPT ![(k - 1) * UNIT_LEN + i] = b])

FromBytes(kind, parsed) ==
    /\ pc \in {"serialized", "tampered"}
    /\ st.kind = kind
    /\ decoded' = parsed
    /\ pc' = "parsed"
    /\ UNCHANGED <<st, pt, vt, dt, start, oracle, proof, pchal, result, vchal,
                   buf, dresult, locals>>

FromBytesCiphertextCommitment ==
    FromBytes("ciphertext_commitment",
              CiphertextCommitmentEqualityProof_from_bytes(buf))

FromBytesCiphertextCiphertext ==
    FromBytes("ciphertext_ciphertext",
              CiphertextCiphertextEqualityProof_from_bytes(buf))

FromBytesZeroCiphertext ==
    FromBytes("zero_ciphertext", ZeroCiphertextProof_from_bytes(buf))

\* verify() of the decoded proof, against the same statement, on a transcript
\* in the state the verifier's transcript had before verify()
VerifyDecoded ==
    /\ pc = "parsed"
    /\ decoded.result = Ok
    /\ \E c \in Challenges, w \in Challenges :
          LET out == Verify(st, decoded.proof, dt, c, w)
          IN  /\ Answers(oracle, out.queries)
              /\ oracle' = Record(oracle, out.queries)
              /\ dresult' = out.result
              /\ dt' = out.transcript
    /\ pc' = "done"
    /\ UNCHANGED <<st, pt, vt, start, proof, pchal, result, vchal, buf, decoded,
                   locals>>

----------------------------------------------------------------------------
(* Specifications *)

\* prover, then verifier, on transcripts in the same state
Next ==
    \/ NewCiphertextCommitment
    \/ NewCiphertextCiphertext
    \/ NewZeroCiphertext
    \/ VerifyCiphertextCommitment
    \/ VerifyCiphertextCiphertext
    \/ VerifyZeroCiphertext

Spec == Init /\ [][Next]_vars

\* the same, the verifier's transcript having absorbed other public data
\* than the prover's
OtherTranscripts ==
    {TranscriptNew("Other"),
     AppendMessage(TranscriptNew("Test"), "pubkey", Compress(H))}

InitBinding ==
    InitWith(StatementsOf({Min(MaxSecret, L - 1)}, Amounts,
                          {Min(MaxOpening, L - 1)}),
             OtherTranscripts)

SpecBinding == InitBinding /\ [][Next]_vars

\* a proof goes over the wire unchanged and is verified on both ends
InitRoundTrip ==
    InitWith(StatementsOf({Min(MaxSecret, L - 1)}, Amounts,
                          {Min(MaxOpening, L - 1)}),
             {TranscriptNew("Test")})

NextRoundTrip ==
    \/ Next
    \/ ToBytesCiphertextCommitment
    \/ ToBytesCiphertextCiphertext
    \/ ToBytesZeroCiphertext
    \/ FromBytesCiphertextCommitment
    \/ FromBytesCiphertextCiphertext
    \/ FromBytesZeroCiphertext
    \/ VerifyDecoded

SpecRoundTrip == InitRoundTrip /\ [][NextRoundTrip]_vars

\* the bytes of a proof are cut, extended or changed before from_bytes()
InitWire ==
    InitWith(StatementsOf({Min(MaxSecret, L - 1)}, {Min(MaxAmount, L - 1)},
                          {Min(MaxOpening, L - 1)}),
             {TranscriptNew("Test")})

NextWire ==
    \/ NewCiphertextCommitment
    \/ NewCiphertextCiphertext
    \/ NewZeroCiphertext
    \/ ToBytesCiphertextCommitment
    \/ ToBytesCiphertextCiphertext
    \/ ToBytesZeroCiphertext
    \/ Truncate
    \/ Extend
    \/ Corrupt
    \/ FromBytesCiphertextCommitment
    \/ FromBytesCiphertextCiphertext
    \/ FromBytesZeroCiphertext

SpecWire == InitWire /\ [][NextWire]_vars

\* prover, then verifier, for one keypair and one opening
SpecOrder == InitRoundTrip /\ [][Next]_vars

\* verify() is given a proof with malformed masking points
InitMalformed ==
    InitWith(StatementsOf({Min(MaxSecret, L - 1)}, {Min(MaxAmount, L - 1)},
                          {Min(MaxOpening, L - 1)}),
             {TranscriptNew("Test")})

NextMalformed ==
    \/ Next
    \/ Malform

SpecMalformed == InitMalformed /\ [][NextMalformed]_vars

\* proofs for ordinary and for identity public keys are verified, written,
\* cut short or not, read back and verified again
InitKinds ==
    InitWith(LET base == {e \in StatementsOf({Min(MaxSecret, L - 1)},
                                             {Min(MaxAmount, L - 1)},
                                             {Min(MaxOpening, L - 1)}) :
                             SameMessage(e)}
             IN  base \cup {IdentityPubkey(e) : e \in base},
             {TranscriptNew("Test")})

NextKinds ==
    \/ NextRoundTrip
    \/ Truncate

SpecKinds == InitKinds /\ [][NextKinds]_vars

\* the edge cases, next to ordinary statements: identity public key, public
\* key s * G, half-zero ciphertexts, a witness that does not fit the statement
InitEdge == InitWith(EdgeStatements, {TranscriptNew("Test")})

SpecEdge == InitEdge /\ [][Next]_vars

----------------------------------------------------------------------------
(* Properties *)

Verifying(kind) == pc = "verified" /\ st.kind = kind
\* prover and verifier started from the same transcript state
SameStart == start[1] = start[2]
NonZeroChallenges ==
    /\ Len(vchal) = 2
    /\ vchal[1] # 0
    /\ vchal[2] # 0

\* C1: an honest ciphertext-commitment equality proof, for a ciphertext and a
\* commitment of the same message under a keypair with s*P = H, is accepted
\* by verify when both transcripts start in the same state.
C1_CtCmtCompleteness ==
    (/\ Verifying("ciphertext_commitment")
     /\ SameStart
     /\ PointMul(st.keypair.secret, st.keypair.pubkey) = H
     /\ st.amount = st.second_amount)
        => result = Ok

C1_Witness ==
    /\ Verifying("ciphertext_commitment")
    /\ SameStart
    /\ st.amount = st.second_amount
    /\ st.amount = Min(MaxAmount, L - 1)
    /\ st.r # st.second_opening
    /\ Len(vchal) = 2 /\ vchal[1] > 1 /\ vchal[2] > 1
    /\ result = Ok

\* C2: when the commitment is to another message than the ciphertext's, the
\* proof built for the ciphertext's message is rejected with
\* AlgebraicRelation, provided the derived c and w are non-zero.
C2_CtCmtSoundness ==
    (/\ Verifying("ciphertext_commitment")
     /\ SameStart
     /\ st.amount # st.second_amount
     /\ NonZeroChallenges)
        => result = AlgebraicRelation

C2_Witness ==
    /\ Verifying("ciphertext_commitment")
    /\ SameStart
    /\ st.amount # st.second_amount
    /\ st.r = st.second_opening
    /\ NonZeroChallenges
    /\ result = AlgebraicRelation

\* C3: an honest ciphertext-ciphertext equality proof, for two ciphertexts of
\* the same message (the second under any public key), is accepted by verify
\* when both transcripts start in the same state.
C3_CtCtCompleteness ==
    (/\ Verifying("ciphertext_ciphertext")
     /\ SameStart
     /\ PointMul(st.keypair.secret, st.keypair.pubkey) = H
     /\ st.amount = st.second_amount)
        => result = Ok

C3_Witness ==
    /\ Verifying("ciphertext_ciphertext")
    /\ SameStart
    /\ st.amount = st.second_amount
    /\ st.amount = Min(MaxAmount, L - 1)
    /\ st.second_pubkey # Identity
    /\ st.second_pubkey # st.keypair.pubkey
    /\ st.second_opening # 0
    /\ Len(vchal) = 2 /\ vchal[1] > 1 /\ vchal[2] > 1
    /\ result = Ok

\* C4: when the second ciphertext encrypts another message than the first,
\* the proof built for the first message is rejected, provided the derived
\* c and w are non-zero.
C4_CtCtSoundness ==
    (/\ Verifying("ciphertext_ciphertext")
     /\ SameStart
     /\ st.amount # st.second_amount
     /\ NonZeroChallenges)
        => result \in {AlgebraicRelation, Deserialization}

C4_Witness ==
    /\ Verifying("ciphertext_ciphertext")
    /\ SameStart
    /\ st.amount # st.second_amount
    /\ st.r = st.second_opening
    /\ st.second_pubkey # Identity
    /\ NonZeroChallenges
    /\ result = AlgebraicRelation

\* C5: an honest zero-ciphertext proof for a ciphertext (r*H, r*P) that
\* encrypts 0, the all-zero ciphertext r = 0 included, is accepted by verify
\* when both transcripts start in the same state.
C5_ZeroCompleteness ==
    (/\ Verifying("zero_ciphertext")
     /\ SameStart
     /\ PointMul(st.keypair.secret, st.keypair.pubkey) = H
     /\ st.amount = 0)
        => result = Ok

\* the all-zero ciphertext, Y_D the identity, a non-trivial mask and challenge
C5_Witness ==
    /\ Verifying("zero_ciphertext")
    /\ SameStart
    /\ st.amount = 0
    /\ st.ciphertext = [commitment |-> Identity, handle |-> Identity]
    /\ proof.Y_D = Compress(Identity)
    /\ proof.Y_P # Compress(Identity)
    /\ Len(vchal) = 2 /\ vchal[1] > 1 /\ vchal[2] > 1
    /\ result = Ok

\* C6: the zero-ciphertext proof for a ciphertext that encrypts x # 0 is
\* rejected, provided the derived c and w are non-zero.
C6_ZeroSoundness ==
    (/\ Verifying("zero_ciphertext")
     /\ SameStart
     /\ st.amount # 0
     /\ NonZeroChallenges)
        => result \in {AlgebraicRelation, Deserialization}

C6_Witness ==
    /\ Verifying("zero_ciphertext")
    /\ SameStart
    /\ st.amount # 0
    /\ st.r # 0
    /\ NonZeroChallenges
    /\ result = AlgebraicRelation

\* C7: for a proof p that new() returned, from_bytes(to_bytes(p)) succeeds
\* with the same masking points and responses, and verify of the decoded
\* proof returns what verify of p returns (same statement, transcripts
\* starting in the same state).
C7_RoundTrip ==
    /\ pc \in {"parsed", "done"} =>
          /\ decoded.result = Ok
          /\ decoded.proof = proof
    /\ (pc = "done" /\ result # "none") => dresult = result

C7_Witness ==
    /\ pc = "done"
    /\ st.kind = "ciphertext_ciphertext"
    /\ decoded.proof = proof
    /\ Cardinality({proof.z_s, proof.z_x, proof.z_r}) = 3
    /\ Cardinality({proof.Y_0, proof.Y_1, proof.Y_2, proof.Y_3}) >= 3
    /\ result = Ok
    /\ dresult = Ok

ProofLen(kind) ==
    CASE kind = "ciphertext_commitment" -> CIPHERTEXT_COMMITMENT_EQUALITY_PROOF_LEN
      [] kind = "ciphertext_ciphertext" -> CIPHERTEXT_CIPHERTEXT_EQUALITY_PROOF_LEN
      [] kind = "zero_ciphertext" -> ZERO_CIPHERTEXT_PROOF_LEN

\* C8: from_bytes returns the Deserialization error for every input whose
\* length is not exactly chunks * UNIT_LEN (3, 6 or 7 chunks), shorter or
\* longer.
C8_ExactLength ==
    (pc = "parsed" /\ Len(buf) # ProofLen(st.kind))
        => decoded.result = Deserialization

\* the k-th chunk of a correctly sized input
Chunk(bytes, k) == SubSeq(bytes, (k - 1) * UNIT_LEN + 1, k * UNIT_LEN)
\* a chunk is canonical when it is the encoding of a point / of a scalar
CanonicalPoint(chunk) == \E p \in Points : chunk = Compress(p)
CanonicalScalar(chunk) == \E s \in Scalars : chunk = ScalarAsBytes(s)
PointChunks(kind) ==
    CASE kind = "ciphertext_commitment" -> 1..3
      [] kind = "ciphertext_ciphertext" -> 1..4
      [] kind = "zero_ciphertext" -> 1..2
ScalarChunks(kind) == (1..(ProofLen(kind) \div UNIT_LEN)) \ PointChunks(kind)
AllCanonical(kind, bytes) ==
    /\ \A k \in PointChunks(kind) : CanonicalPoint(Chunk(bytes, k))
    /\ \A k \in ScalarChunks(kind) : CanonicalScalar(Chunk(bytes, k))

\* C9: for a correctly sized input, from_bytes returns Ok when every chunk
\* is canonical (scalars below L, points valid encodings) and the
\* Deserialization error otherwise.
C9_CanonicalContent ==
    (pc = "parsed" /\ Len(buf) = ProofLen(st.kind))
        => /\ decoded.result \in {Ok, Deserialization}
           /\ decoded.result = Ok <=> AllCanonical(st.kind, buf)

\* a response chunk that encodes exactly L is refused
C9_Witness ==
    /\ pc = "parsed"
    /\ Len(buf) = ProofLen(st.kind)
    /\ \A k \in PointChunks(st.kind) : CanonicalPoint(Chunk(buf, k))
    /\ \E k \in ScalarChunks(st.kind) :
          /\ Chunk(buf, k) = [i \in 1..UNIT_LEN |-> IF i = 1 THEN L ELSE 0]
          /\ \A j \in ScalarChunks(st.kind) \ {k} : CanonicalScalar(Chunk(buf, j))
    /\ decoded.result = Deserialization

\* the statement is true: both encodings hold the prover's message
\* (the ciphertext encrypts 0, for the zero-ciphertext proof)
TrueStatement ==
    IF st.kind = "zero_ciphertext" THEN st.amount = 0
    ELSE st.amount = st.second_amount

\* what the sub-equations of an honest proof of a true statement leave, up
\* to the factor (c - c'), when the verifier derives c' instead of c
Residue(w) ==
    CASE st.kind = "ciphertext_commitment" ->
            MultiscalarMul(<<1, w, ScalarMul(w, w)>>,
                           <<H, st.ciphertext.commitment, st.commitment>>)
      [] st.kind = "ciphertext_ciphertext" ->
            MultiscalarMul(<<1, w, ScalarMul(w, w), ScalarMul(w, ScalarMul(w, w))>>,
                           <<H, st.ciphertext.commitment, st.commitment,
                             st.second_handle>>)
      [] st.kind = "zero_ciphertext" ->
            MultiscalarMul(<<1, w>>, <<H, st.ciphertext.commitment>>)

\* C10 (as claimed): when the verifier's transcript absorbed other public
\* data than the prover's, verify of the honest proof fails.
C10_TranscriptBinding ==
    (pc = "verified" /\ ~SameStart /\ TrueStatement) => result # Ok

\* C10 (amended): when the verifier's transcript absorbed other public data
\* than the prover's, the verifier's c is derived from another history than
\* the prover's (no challenge of the verifier comes from a history the prover
\* derived one from), and verify of the honest proof of a true statement returns
\* AlgebraicRelation unless that c equals the prover's or the weight w is a
\* root of H + w*C + w^2*C' (+ w^3*D2; H + w*C for the zero-ciphertext
\* proof); in these two cases it returns Ok.
C10_TranscriptBindingAmended ==
    (pc = "verified" /\ ~SameStart /\ TrueStatement)
        => /\ Len(vchal) = 2
           /\ Cardinality(DOMAIN oracle) = 4
           /\ result \in {Ok, AlgebraicRelation}
           /\ result = Ok <=> \/ vchal[1] = pchal[1]
                              \/ IsIdentity(Residue(vchal[2]))

C10_Witness ==
    /\ pc = "verified"
    /\ ~SameStart
    /\ TrueStatement
    /\ st.kind = "ciphertext_commitment"
    /\ start[2] = AppendMessage(TranscriptNew("Test"), "pubkey", Compress(H))
    /\ vchal[1] # pchal[1]
    /\ ~IsIdentity(Residue(vchal[2]))
    /\ result = AlgebraicRelation

\* the first ciphertext is the encryption of the prover's message under the
\* statement's public key
HonestCiphertext ==
    st.ciphertext = EncryptWith(st.keypair.pubkey, st.amount, st.r)

IdentityPubkeyResidue(w) ==
    IF st.kind = "zero_ciphertext"
    THEN MultiscalarMul(<<1, w>>, <<H, st.ciphertext.commitment>>)
    ELSE MultiscalarMul(<<1, w, ScalarNeg(ScalarMul(w, ScalarFrom(st.amount)))>>,
                        <<H, st.ciphertext.commitment, G>>)

AllZeroCiphertext == [commitment |-> Identity, handle |-> Identity]

\* C12: with message 0 and a keypair with s*P = H, the ciphertext-commitment
\* equality proof built by new() verifies Ok when (a) the ciphertext, the
\* commitment and the opening are all zero, (b) the ciphertext is an
\* encryption of 0 and the commitment and the opening are all zero, (c) the
\* ciphertext is all zero and the commitment is a commitment to 0.
C12_DegenerateZeroAccepted ==
    (/\ Verifying("ciphertext_commitment")
     /\ SameStart
     /\ PointMul(st.keypair.secret, st.keypair.pubkey) = H
     /\ st.amount = 0
     /\ \/ /\ st.ciphertext = AllZeroCiphertext
           /\ IsIdentity(st.commitment)
           /\ st.second_opening = 0
        \/ /\ st.ciphertext = EncryptWith(st.keypair.pubkey, 0, st.r)
           /\ IsIdentity(st.commitment)
           /\ st.second_opening = 0
        \/ /\ st.ciphertext = AllZeroCiphertext
           /\ st.commitment = PedersenWith(0, st.second_opening))
        => result = Ok

\* case (a), with masks and challenges that are not trivial
C12_Witness ==
    /\ Verifying("ciphertext_commitment")
    /\ SameStart
    /\ st.amount = 0
    /\ st.ciphertext = AllZeroCiphertext
    /\ IsIdentity(st.commitment)
    /\ st.second_opening = 0
    /\ proof.Y_0 # Compress(Identity)
    /\ proof.Y_2 # Compress(Identity)
    /\ proof.z_r # 0
    /\ Len(vchal) = 2 /\ vchal[1] > 1 /\ vchal[2] > 1
    /\ result = Ok

\* exactly one of the ciphertext's commitment and handle is the identity
HalfZero(ciphertext) ==
    IsIdentity(ciphertext.commitment) # IsIdentity(ciphertext.handle)

\* C13: when exactly one of the ciphertext's commitment and handle is the
\* identity, the zero-ciphertext proof built by new() with a keypair with
\* s*P = H is rejected by verify, provided the derived c and w are non-zero.
C13_HalfZeroRejected ==
    (/\ Verifying("zero_ciphertext")
     /\ SameStart
     /\ PointMul(st.keypair.secret, st.keypair.pubkey) = H
     /\ HalfZero(st.ciphertext)
     /\ NonZeroChallenges)
        => result \in {AlgebraicRelation, Deserialization}

\* the commitment is the identity and the handle is r * P
C13_Witness ==
    /\ Verifying("zero_ciphertext")
    /\ SameStart
    /\ PointMul(st.keypair.secret, st.keypair.pubkey) = H
    /\ IsIdentity(st.ciphertext.commitment)
    /\ st.r # 0
    /\ st.ciphertext.handle = DecryptHandle(st.keypair.pubkey, st.r)
    /\ proof.Y_D # Compress(Identity)
    /\ NonZeroChallenges
    /\ result = AlgebraicRelation

\* a proof value: every masking point a compressed point, every response a
\* scalar
IsProof(kind, p) ==
    /\ DOMAIN p = Range(PointFields(kind)) \cup Range(ScalarFields(kind))
    /\ \A f \in Range(PointFields(kind)) :
          /\ Len(p[f]) = UNIT_LEN
          /\ IsSome(Decompress(p[f]))
    /\ \A f \in Range(ScalarFields(kind)) : p[f] \in Scalars

\* C14: new() of each proof type returns a proof for every input, a witness
\* that does not fit the statement, an identity public key, an all-zero
\* ciphertext and a zero opening included: it can always be called, and
\* what it returns is a proof.
C14_NewTotal ==
    /\ pc = "start" =>
          ENABLED (\/ NewCiphertextCommitment
                   \/ NewCiphertextCiphertext
                   \/ NewZeroCiphertext)
    /\ pc = "proved" =>
          /\ IsProof(st.kind, proof)
          /\ Len(pchal) = 2

\* a proof for a message that is not the one the ciphertext holds
C14_Witness ==
    /\ pc = "proved"
    /\ st.kind = "ciphertext_ciphertext"
    /\ ~HonestCiphertext
    /\ st.ciphertext = EncryptWith(st.keypair.pubkey, st.amount - 1, st.r)
    /\ IsProof(st.kind, proof)
    /\ proof.z_x # 0

DomainSeparatorOf(kind) ==
    CASE kind = "ciphertext_commitment" -> "ciphertext-commitment-equality-proof"
      [] kind = "ciphertext_ciphertext" -> "ciphertext-ciphertext-equality-proof"
      [] kind = "zero_ciphertext" -> "zero-ciphertext-proof"

\* the position, in field order, of the first malformed masking point; 0 if
\* every masking point decompresses
FirstMalformed(kind, p) ==
    IF MalformedFields(kind, p) = {} THEN 0
    ELSE CHOOSE i \in 1..Len(PointFields(kind)) :
            /\ PointFields(kind)[i] \in MalformedFields(kind, p)
            /\ \A j \in 1..(i - 1) :
                  PointFields(kind)[j] \notin MalformedFields(kind, p)

\* the transcript t after the domain separator and the first n masking
\* points of p
RECURSIVE Absorbed(_, _, _, _)
Absorbed(t, kind, p, n) ==
    IF n = 0 THEN DomainSeparator(t, DomainSeparatorOf(kind))
    ELSE AppendPoint(Absorbed(t, kind, p, n - 1),
                     PointFields(kind)[n], p[PointFields(kind)[n]])

C16_TranscriptsInStep ==
    (pc = "verified" /\ SameStart /\ Len(vchal) = 2) => pt = vt

\* the chunks of a proof on the wire: one per field in declared order, a
\* masking point as its compressed bytes, a response as its little-endian
\* bytes
FieldChunks(kind, p) ==
    [k \in 1..(Len(PointFields(kind)) + Len(ScalarFields(kind))) |->
        IF k <= Len(PointFields(kind))
        THEN p[PointFields(kind)[k]]
        ELSE ScalarAsBytes(p[ScalarFields(kind)[k - Len(PointFields(kind))]])]

FieldCount(kind) ==
    CASE kind = "ciphertext_commitment" -> 6
      [] kind = "ciphertext_ciphertext" -> 7
      [] kind = "zero_ciphertext" -> 3

\* C17: to_bytes writes one UNIT_LEN-byte chunk per field in declared order
\* and nothing else (3, 6 or 7 chunks), and from_bytes, when it succeeds,
\* has read the k-th chunk into the k-th field.
C17_WireLayout ==
    /\ pc = "serialized" =>
          /\ Len(FieldChunks(st.kind, proof)) = FieldCount(st.kind)
          /\ Len(buf) = FieldCount(st.kind) * UNIT_LEN
          /\ \A k \in 1..FieldCount(st.kind) :
                Chunk(buf, k) = FieldChunks(st.kind, proof)[k]
    /\ (pc = "parsed" /\ decoded.result = Ok) =>
          /\ DOMAIN decoded.proof = DOMAIN proof
          /\ \A k \in 1..FieldCount(st.kind) :
                Chunk(buf, k) = FieldChunks(st.kind, decoded.proof)[k]

\* bytes changed on the wire are read into the field of their chunk
C17_Witness ==
    /\ pc = "parsed"
    /\ st.kind = "ciphertext_commitment"
    /\ decoded.result = Ok
    /\ Len(buf) = FieldCount(st.kind) * UNIT_LEN
    /\ decoded.proof.z_x # proof.z_x
    /\ decoded.proof = [proof EXCEPT !.z_x = decoded.proof.z_x]
    /\ Cardinality({proof.Y_0, proof.Y_1, proof.Y_2}) = 3
    /\ Chunk(buf, 5) = ScalarAsBytes(decoded.proof.z_x)

ReservedKinds == {MultiscalarMulError, PubkeyIsIdentity}

\* no verify and no from_bytes call has returned a reserved error kind
NoReservedKind ==
    /\ result \notin ReservedKinds
    /\ dresult \notin ReservedKinds
    /\ pc \in {"parsed", "done"} => decoded.result \notin ReservedKinds

\* verify() was called with an identity public key on a proof of new(),
\* whose masking points all decode
IdentityPubkeyVerified ==
    /\ pc = "verified"
    /\ SameStart
    /\ IsIdentity(st.keypair.pubkey)
    /\ HonestCiphertext
    /\ SameMessage(st)
    /\ MalformedFields(st.kind, proof) = {}

FirstSubEquation ==
    MultiscalarMul(
        << proof[ScalarFields(st.kind)[1]],
           ScalarNeg(vchal[1]),
           ScalarNeg(ScalarONE) >>,
        << st.keypair.pubkey, H,
           Unwrap(Decompress(proof[PointFields(st.kind)[1]])) >>)

\* s*P - H
KeyDefect ==
    MultiscalarMul(<<st.keypair.secret, ScalarNeg(ScalarONE)>>,
                   <<st.keypair.pubkey, H>>)

\* C19 (as claimed): for a keypair with P = s*G, the honest prover's Y_0
\* and z_s satisfy the first sub-equation z_s*P - c*H - Y_0 = identity, and
\* prover-then-verifier succeeds.
C19_GeneratorKeyRelation ==
    (/\ pc = "verified"
     /\ SameStart
     /\ st.keypair.pubkey = PointMul(st.keypair.secret, G)
     /\ HonestCiphertext
     /\ TrueStatement
     /\ Len(vchal) = 2)
        => /\ IsIdentity(FirstSubEquation)
           /\ result = Ok

\* C19 (amended): the honest prover's Y_0 = y_s*P and z_s = c*s + y_s leave
\* c*(s*P - H) in the verifier's first sub-equation, whatever the keypair.
\* For a keypair with s*P = H (P = s^-1 * H) the sub-equation is the
\* identity and prover-then-verifier succeeds; for any other keypair,
\* P = s*G included, verify of the proof of a true statement returns
\* AlgebraicRelation unless c = 0 or w*r = -1 for the opening r of the first
\* ciphertext.
C19_KeyRelationAmended ==
    (/\ pc = "verified"
     /\ SameStart
     /\ HonestCiphertext
     /\ TrueStatement
     /\ Len(vchal) = 2)
        => /\ FirstSubEquation = PointMul(vchal[1], KeyDefect)
           /\ result \in {Ok, AlgebraicRelation}
           /\ result = Ok <=>
                 \/ IsIdentity(KeyDefect)
                 \/ vchal[1] = 0
                 \/ ScalarAdd(ScalarMul(vchal[2], st.r), ScalarONE) = 0

\* a proof for a keypair with P = s*G is rejected
C19_Witness ==
    /\ Verifying("ciphertext_commitment")
    /\ SameStart
    /\ st.keypair.secret = Min(MaxSecret, L - 1)
    /\ st.keypair.pubkey = PointMul(st.keypair.secret, G)
    /\ HonestCiphertext
    /\ TrueStatement
    /\ NonZeroChallenges
    /\ ~IsIdentity(FirstSubEquation)
    /\ result = AlgebraicRelation

\* the transcript t after the first n response scalars of p
RECURSIVE Responded(_, _, _, _)
Responded(t, kind, p, n) ==
    IF n = 0 THEN t
    ELSE AppendScalar(Responded(t, kind, p, n - 1),
                      ScalarFields(kind)[n], p[ScalarFields(kind)[n]])

\* the inputs of c and of w in the order claimed: domain separator, masking
\* points in field order, c, response scalars in field order, w
ClaimedInputOfC(p) ==
    ChallengeScalar(
        Absorbed(start[2], st.kind, p, Len(PointFields(st.kind))), "c")
ClaimedInputOfW(p) ==
    ChallengeScalar(
        Responded(ClaimedInputOfC(p), st.kind, p, Len(ScalarFields(st.kind))),
        "w")

\* the transcript histories verify() asks the challenges c and w for
InputOfC(p) == Verify(st, p, start[2], vchal[1], vchal[2]).queries[1][1]
InputOfW(p) == Verify(st, p, start[2], vchal[1], vchal[2]).queries[2][1]

\* C20: verify absorbs the domain separator, the masking points in field
\* order, derives c, absorbs every response scalar and only then derives w:
\* c is the answer to a history without response scalars, w the answer to
\* the history with all of them, and changing any response scalar of the
\* proof changes the input of w and leaves the input of c as it is.
C20_VerifierTranscriptOrder ==
    (pc = "verified" /\ Len(vchal) = 2)
        => /\ vt = ClaimedInputOfW(proof)
           /\ InputOfC(proof) = ClaimedInputOfC(proof)
           /\ InputOfW(proof) = ClaimedInputOfW(proof)
           /\ oracle[InputOfC(proof)] = vchal[1]
           /\ oracle[InputOfW(proof)] = vchal[2]
           /\ \A f \in Range(ScalarFields(st.kind)) :
                 \A z \in Scalars \ {proof[f]} :
                    /\ InputOfC([proof EXCEPT ![f] = z]) = InputOfC(proof)
                    /\ InputOfW([proof EXCEPT ![f] = z]) # InputOfW(proof)

C20_Witness ==
    /\ Verifying("ciphertext_ciphertext")
    /\ Len(vchal) = 2
    /\ vchal[1] # vchal[2]
    /\ Cardinality({proof.z_s, proof.z_x, proof.z_r}) = 3
    /\ vt = ClaimedInputOfW(proof)
    /\ Len(vt) = Len(start[2]) + 10
    /\ InputOfW([proof EXCEPT !.z_r = ScalarAdd(proof.z_r, ScalarONE)]) # vt

----------------------------------------------------------------------------
(* The batched check and its sub-equations *)

\* one field of the serialized proof is changed to another canonical or
\* non-canonical value; what from_bytes() accepts is verified
NextForged ==
    \/ NewCiphertextCommitment
    \/ NewCiphertextCiphertext
    \/ NewZeroCiphertext
    \/ ToBytesCiphertextCommitment
    \/ ToBytesCiphertextCiphertext
    \/ ToBytesZeroCiphertext
    \/ Corrupt
    \/ FromBytesCiphertextCommitment
    \/ FromBytesCiphertextCiphertext
    \/ FromBytesZeroCiphertext
    \/ VerifyDecoded

SpecForged == InitWire /\ [][NextForged]_vars

\* the challenges verify() of the decoded proof derived
DecodedC == oracle[Verify(st, decoded.proof, start[2], 0, 0).queries[1][1]]
DecodedW == oracle[Verify(st, decoded.proof, start[2], DecodedC, 0).queries[2][1]]

PointOf(p, f) == Unwrap(Decompress(p[f]))
PointSub(a, b) == PointAdd(a, PointMul(ScalarNeg(ScalarONE), b))

\* E1, E2, E3 (and E4) of the two equality proofs, as the statement of C21
\* gives them
EqualitySubEquations(p, c) ==
    LET E1 == PointSub(PointSub(PointMul(p.z_s, st.keypair.pubkey),
                                PointMul(c, H)),
                       PointOf(p, "Y_0"))
        E2 == PointSub(PointSub(PointAdd(PointMul(p.z_x, G),
                                         PointMul(p.z_s, st.ciphertext.handle)),
                                PointMul(c, st.ciphertext.commitment)),
                       PointOf(p, "Y_1"))
        E3 == PointSub(PointSub(PointAdd(PointMul(p.z_x, G),
                                         PointMul(p.z_r, H)),
                                PointMul(c, st.commitment)),
                       PointOf(p, "Y_2"))
        E4 == PointSub(PointSub(PointMul(p.z_r, st.second_pubkey),
                                PointMul(c, st.second_handle)),
                       PointOf(p, "Y_3"))
    IN  IF st.kind = "ciphertext_commitment" THEN <<E1, E2, E3>>
        ELSE <<E1, E2, E3, E4>>

ZeroSubEquations(p, c) ==
    << PointSub(PointSub(PointMul(p.z, st.keypair.pubkey), PointMul(c, H)),
                PointOf(p, "Y_P")),
       PointSub(PointSub(PointMul(p.z, st.ciphertext.handle),
                         PointMul(c, st.ciphertext.commitment)),
                PointOf(p, "Y_D")) >>

SubEquations(p, c) ==
    IF st.kind = "zero_ciphertext" THEN ZeroSubEquations(p, c)
    ELSE EqualitySubEquations(p, c)

\* E[1] + w E[2] + w^2 E[3] + ...
RECURSIVE WeightedSum(_, _)
WeightedSum(E, w) ==
    IF E = <<>> THEN Identity
    ELSE PointAdd(Head(E), PointMul(w, WeightedSum(Tail(E), w)))

\* the pairs verify() hands to the multiscalar multiplication
CheckScalars(p, c, w) ==
    CASE st.kind = "ciphertext_commitment" ->
            CiphertextCommitmentEqualityProof_check_scalars(p, c, w)
      [] st.kind = "ciphertext_ciphertext" ->
            CiphertextCiphertextEqualityProof_check_scalars(p, c, w)
      [] st.kind = "zero_ciphertext" ->
            ZeroCiphertextProof_check_scalars(p, c, w)

CheckPoints(p) ==
    CASE st.kind = "ciphertext_commitment" ->
            CiphertextCommitmentEqualityProof_check_points(
                PointOf(p, "Y_0"), PointOf(p, "Y_1"), PointOf(p, "Y_2"),
                st.keypair.pubkey, st.ciphertext.commitment,
                st.ciphertext.handle, st.commitment)
      [] st.kind = "ciphertext_ciphertext" ->
            CiphertextCiphertextEqualityProof_check_points(
                PointOf(p, "Y_0"), PointOf(p, "Y_1"), PointOf(p, "Y_2"),
                PointOf(p, "Y_3"),
                st.keypair.pubkey, st.ciphertext.commitment,
                st.ciphertext.handle, st.second_pubkey,
                second_ciphertext(st).commitment, second_ciphertext(st).handle)
      [] st.kind = "zero_ciphertext" ->
            ZeroCiphertextProof_check_points(
                PointOf(p, "Y_P"), PointOf(p, "Y_D"), st.keypair.pubkey,
                st.ciphertext.commitment, st.ciphertext.handle)

\* the value verify() compares with the identity
Batched(p, c, w) ==
    CASE st.kind = "ciphertext_commitment" ->
            CiphertextCommitmentEqualityProof_check(
                p, PointOf(p, "Y_0"), PointOf(p, "Y_1"), PointOf(p, "Y_2"),
                st.keypair.pubkey, st.ciphertext.commitment,
                st.ciphertext.handle, st.commitment, c, w)
      [] st.kind = "ciphertext_ciphertext" ->
            CiphertextCiphertextEqualityProof_check(
                p, PointOf(p, "Y_0"), PointOf(p, "Y_1"), PointOf(p, "Y_2"),
                PointOf(p, "Y_3"),
                st.keypair.pubkey, st.ciphertext.commitment,
                st.ciphertext.handle, st.second_pubkey,
                second_ciphertext(st).commitment, second_ciphertext(st).handle,
                c, w)
      [] st.kind = "zero_ciphertext" ->
            ZeroCiphertextProof_check(
                p, PointOf(p, "Y_P"), PointOf(p, "Y_D"), st.keypair.pubkey,
                st.ciphertext.commitment, st.ciphertext.handle, c, w)

PairCount ==
    CASE st.kind = "ciphertext_commitment" -> 11
      [] st.kind = "ciphertext_ciphertext" -> 14
      [] st.kind = "zero_ciphertext" -> 6

DecodedVerified ==
    pc = "done" /\ MalformedFields(st.kind, decoded.proof) = {}

\* C21: for every proof whose masking points decode, and every c and w of
\* the scalar field, the multiscalar value of verify() is the sum of the
\* sub-equations weighted by the powers of w, over 11, 14 and 6 scalar/point
\* pairs; verify() returns Ok when that sum is the identity at the
\* challenges it derived, and AlgebraicRelation otherwise.
C21_BatchedIsWeightedSum ==
    DecodedVerified =>
        /\ \A c \in Scalars, w \in Scalars :
              /\ Batched(decoded.proof, c, w)
                    = WeightedSum(SubEquations(decoded.proof, c), w)
              /\ Len(CheckScalars(decoded.proof, c, w)) = PairCount
        /\ Len(CheckPoints(decoded.proof)) = PairCount
        /\ dresult =
              IF IsIdentity(WeightedSum(SubEquations(decoded.proof, DecodedC),
                                        DecodedW))
              THEN Ok ELSE AlgebraicRelation

\* a proof with one field changed was verified and rejected by a sum that is
\* not the identity, of sub-equations that are not all the identity
C21_Witness ==
    /\ DecodedVerified
    /\ decoded.proof # proof
    /\ dresult = AlgebraicRelation
    /\ \E k \in 1..Len(SubEquations(decoded.proof, DecodedC)) :
          ~IsIdentity(SubEquations(decoded.proof, DecodedC)[k])

\* a proof with one field changed was accepted: the weighted sum is the
\* identity although a sub-equation is not
C21_WitnessAccepted ==
    /\ DecodedVerified
    /\ dresult = Ok
    /\ \E k \in 1..Len(SubEquations(decoded.proof, DecodedC)) :
          ~IsIdentity(SubEquations(decoded.proof, DecodedC)[k])

----------------------------------------------------------------------------
(* One failing sub-equation *)

\* the sub-equations of the decoded proof that are not the identity, at the
\* challenge c that verify() derived
Failing ==
    {k \in 1..Len(SubEquations(decoded.proof, DecodedC)) :
        ~IsIdentity(SubEquations(decoded.proof, DecodedC)[k])}

\* the weights of the scalar field for which the batched check is the identity
PassingWeights ==
    {w \in Scalars : IsIdentity(Batched(decoded.proof, DecodedC, w))}

\* C22: when exactly one sub-equation E_k is not the identity, the batched
\* check is the identity for no weight other than w = 0, and for no weight
\* at all when k = 1; verify() returns AlgebraicRelation for every other w.
C22_SingleFailureNotHidden ==
    (DecodedVerified /\ Cardinality(Failing) = 1) =>
        /\ PassingWeights = (IF Failing = {1} THEN {} ELSE {0})
        /\ DecodedW \notin PassingWeights => dresult = AlgebraicRelation

\* only a sub-equation after the first fails, at a weight that is not zero,
\* and verify() rejected
C22_Witness ==
    /\ DecodedVerified
    /\ Cardinality(Failing) = 1
    /\ 1 \notin Failing
    /\ DecodedW # 0
    /\ dresult = AlgebraicRelation

\* only the first sub-equation fails, at the weight zero
C22_WitnessFirst ==
    /\ DecodedVerified
    /\ Failing = {1}
    /\ DecodedW = 0
    /\ dresult = AlgebraicRelation

\* only the last sub-equation of a ciphertext-ciphertext proof fails
C22_WitnessLast ==
    /\ DecodedVerified
    /\ Failing = {4}
    /\ DecodedW # 0

\* only the first sub-equation of a zero-ciphertext proof fails
C22_WitnessZeroFirst ==
    /\ DecodedVerified
    /\ st.kind = "zero_ciphertext"
    /\ Failing = {1}

----------------------------------------------------------------------------
(* Erasure of the prover's secrets *)

\* the local scalars new() erases
ErasedLocals ==
    IF st.kind = "zero_ciphertext" THEN {"y"} ELSE {"x", "y_s", "y_x", "y_r"}

\* the proof that the message and the masks give when they are used as
\* sampled, at the challenge c that new() derived
UnerasedEquality(y_s, y_x, y_r) ==
    LET c == pchal[1]
        x == ScalarFrom(st.amount)
        common ==
            [Y_0 |-> Compress(PointMul(y_s, st.keypair.pubkey)),
             Y_1 |-> Compress(PointAdd(PointMul(y_x, G),
                                       PointMul(y_s, st.ciphertext.handle))),
             Y_2 |-> Compress(PointAdd(PointMul(y_x, G), PointMul(y_r, H))),
             z_s |-> ScalarAdd(ScalarMul(c, st.keypair.secret), y_s),
             z_x |-> ScalarAdd(ScalarMul(c, x), y_x),
             z_r |-> ScalarAdd(ScalarMul(c, st.second_opening), y_r)]
    IN  IF st.kind = "ciphertext_commitment" THEN common
        ELSE [f \in DOMAIN common \cup {"Y_3"} |->
                 IF f = "Y_3" THEN Compress(PointMul(y_r, st.second_pubkey))
                 ELSE common[f]]

UnerasedZero(y) ==
    [Y_P |-> Compress(PointMul(y, st.keypair.pubkey)),
     Y_D |-> Compress(PointMul(y, st.ciphertext.handle)),
     z |-> ScalarAdd(ScalarMul(pchal[1], st.keypair.secret), y)]

ProofOfMasks(masks) ==
    IF st.kind = "zero_ciphertext"
    THEN \E y \in masks : proof = UnerasedZero(y)
    ELSE \E y_s \in masks, y_x \in masks, y_r \in masks :
            proof = UnerasedEquality(y_s, y_x, y_r)

\* C23: when new() has returned, the prover's local copy of the message and
\* its masking scalars are zero, and the proof returned is the one the
\* values give as they were before the erasure.
C23_SecretsErased ==
    pc # "start" =>
        /\ DOMAIN locals = ErasedLocals
        /\ \A f \in DOMAIN locals : locals[f] = 0
        /\ ProofOfMasks(Masks)

\* new() returned a proof built from a message and masks that were not
\* zero, and all of them are erased
C23_Witness ==
    /\ pc = "proved"
    /\ st.kind # "zero_ciphertext"
    /\ ScalarFrom(st.amount) # 0
    /\ ProofOfMasks(Masks \ {0})
    /\ \A f \in ErasedLocals : locals[f] = 0

\* the same for the zero-ciphertext proof
C23_WitnessZero ==
    /\ pc = "proved"
    /\ st.kind = "zero_ciphertext"
    /\ ProofOfMasks(Masks \ {0})
    /\ locals = [y |-> 0]

----------------------------------------------------------------------------
(* A malformed Y_D in the zero-ciphertext proof *)

MalformedY_D ==
    /\ Verifying("zero_ciphertext")
    /\ "Y_D" \in MalformedFields(st.kind, proof)

\* the verifier's transcript after it absorbed Y_P, Y_D and z and derived c
\* and w
AbsorbedAll ==
    ChallengeScalar(
        AppendScalar(
            ChallengeScalar(
                AppendPoint(
                    AppendPoint(
                        DomainSeparator(start[2], "zero-ciphertext-proof"),
                        "Y_P", proof.Y_P),
                    "Y_D", proof.Y_D),
                "c"),
            "z", proof.z),
        "w")

\* C24: verify() of the zero-ciphertext proof never returns Ok for a proof
\* whose Y_D does not decode; when Y_P decodes, it returns Deserialization
\* after the transcript absorbed Y_P, the malformed Y_D and z, and after c
\* and w were derived.
C24_MalformedY_DRejected ==
    MalformedY_D =>
        /\ result = Deserialization
        /\ "Y_P" \notin MalformedFields(st.kind, proof) =>
              /\ Len(vchal) = 2
              /\ vt = AbsorbedAll
              /\ \E i \in 1..Len(vt) : vt[i].data = proof.Y_D

\* only Y_D is malformed, and verify() derived both challenges before it
\* returned the error
C24_Witness ==
    /\ MalformedY_D
    /\ MalformedFields(st.kind, proof) = {"Y_D"}
    /\ result = Deserialization
    /\ Len(vchal) = 2

====
